---- MODULE Spec2Model ----
(***************************************************************************)
(* Forecasting pipeline of pull_fred_selected_ppi.py and the band helpers  *)
(* of pull_fred_series_bulk_split_pivot_adaptive*.py.                      *)
(*                                                                         *)
(* Four state machines share this module:                                  *)
(*   SpecFcst  the recursive one-step-ahead loop (ridge/lasso_iterative_   *)
(*             forecast), run on two histories side by side;               *)
(*   SpecLag   best_lag_table and the top-K selection;                     *)
(*   SpecPipe  the loop over the targets with the per-target run (steps    *)
(*             1..8 of the main loop), the forecasting block around        *)
(*             get_ets_forecast, and mc_fan; a behaviour runs one of the   *)
(*             three;                                                      *)
(*   SpecIso   the fit and the transform of the isotonic calibrator.       *)
(* A pandas Series is a sequence of records [d |-> month, v |-> value];    *)
(* months are integers, a missing value is NaN.                            *)
(***************************************************************************)
EXTENDS Integers, Sequences, FiniteSets, TLC

\* a missing value: an integer no series value of the model reaches
NaN == 0 - 1000

\* ---------------------------------------------------------------- bounds
\* last month of the target history (months 1..last_date)
last_date == 3
\* forecast horizon and autoregressive order of the recursive loop
horizon == 2
p == 2

\* values a target month can hold, and the two sentinel future actuals
HistVals == {1, 2}
SentinelA == 5
SentinelB == 7

\* months of the pulled frame (wide_idx.index is 1..n_months) for the lag search
n_months == 4
\* max_lag and min_obs handed to best_lag_table, TOP_K_EXOG of the caller
max_lag == 1
min_obs == 3
TOP_K_EXOG == 1
\* X.columns
Features == <<"f1", "f2">>

\* CAL_WINDOW_MONTHS and MC_SIMS of the per-target run
CAL_WINDOW_MONTHS == 2
MC_SIMS == 2

\* get_ets_forecast carries forward below this many observations
ETS_MIN_LEN == 24

\* BOOT_BLOCK_LEN of mc_fan
BOOT_BLOCK_LEN == 2
\* successes before the pause steps down
SUCCESS_STREAK == 2
\* passes of the retry loop
MAX_RETRIES_PER_CALL == 3
\* retry_call invocations of a run
MaxCalls == 4
\* days a cache file stays fresh
CACHE_TTL_DAYS == 2
\* series of all_items
MaxItems == 2
\* smallest pool that is used as it is
POOL_MIN == 4
\* periods of the year-over-year difference
YOY_LAG == 2
\* months of the recent month-over-month window
RECENT_MOM == 2
\* length of the series handed to _robust_residual_pool
MaxSeriesLen == 3

VARIABLES
  \* ---- recursive forecast (two runs A and B of the same call)
  pcF,        \* "loop" | "done" | "raised"
  cur,        \* the month being forecast (cur of the loop)
  model,      \* fitted pipeline: intercept b, exog weight w, AR weights a[L]
  X_filled,   \* exogenous column of X_exog_lagged_full after ffill/bfill
  y_histA, y_histB,   \* the histories handed to the two runs
  y_tmpA, y_tmpB,     \* working series
  predsA, predsB,     \* list of (cur, yhat)
  rowA,               \* y_lag entries of the row built by run A's last step
  \* ---- best_lag_table and the top-K selection
  pcL,        \* "read" | "scan" | "sort" | "head" | "done" | "raised"
  y,          \* the target, month -> value (NaN where the target has no row)
  col,        \* position in X.columns of the column being scanned
  x,          \* X[col], month -> value or NaN
  lag,        \* the lag being tried
  best,       \* <<>> (None) or <<row>>
  rows,       \* rows collected so far
  lag_tbl,    \* the returned, sorted table
  top_exog,   \* lag_tbl.head(TOP_K_EXOG)
  \* ---- the per-target run (main loop steps 2..8)
  pcP,        \* "extend" | "fitbase" | "fitsar" | "stack" | "iso" | "exogmodels"
              \* | "mc" | "quantile" | "assemble" | "done" | "aborted"
  top_k,      \* retained rows [feature, best_lag]
  y_tgt,      \* the target y = wide_idx[TARGET].dropna()
  tgt,        \* position in NORTH_STARS of the target being run
  results,    \* keys of the results dict
  gen,        \* the stream of the random generator
  clock,      \* wall clock at the start of the run (A) and of a re-run (B)
  rng_pos,    \* draws taken so far from rng
  X_full_sim, \* the simulated frame of the last path
  sim_pathsB, \* the simulated paths of the re-run
  sim_pathsR, \* path index -> path, of the loop run in descending order
  X_all,      \* feature -> month -> observed value (NaN where missing)
  fit_env,    \* whether each base learner's fit succeeds on this data
  exog_fit,   \* feature -> result of fit_exog_model on that candidate
  X_full,     \* feature -> month -> value: history and deterministic extension
  k_ext,      \* position in top_k of the candidate being extended
  ridge,      \* fitted linear base learner (<<>> before the fit)
  sarimax,    \* fitted SARIMAX (<<>> before the fit)
  base_fcst, sarimax_fcst,   \* point forecasts of the two learners
  stack_n,    \* rows of stack_df
  stack_lin,  \* fitted stack coefficients in halves (<<>> before the fit)
  iso,        \* fitted isotonic calibrator (<<>> before the fit)
  stack_fcst_cal,  \* calibrated point forecast (in halves)
  stack_fit,  \* in-sample stack output over stack_df.index (in halves)
  stack_fcst, \* stacked point forecast before calibration (in halves)
  stack_fit_cal,   \* stack_fit with the window calibrated
  pack,       \* the metadata tables of the target, <<>> until built
  exog_models,     \* step 7: feature -> [model, std, lag]
  sim_paths,  \* calibrated simulated paths
  q_df,       \* forecast month -> quantile bands, scaled by 20
  forecast_table,  \* rows emitted; <<>> until assembled
  \* ---- the bulk pull's forecasting block and get_ets_forecast
  pcE,        \* "block" | "ets" | "skipped" | "returned"
  s_len,      \* len(s_to_forecast)
  s_last,     \* s.iloc[-1]
  sims,       \* model.simulate(...): mc_sims paths over the horizon
  fc_table,   \* future rows of the returned table; <<>> before the return
  \* ---- mc_fan
  pcM,        \* "enter" | "block" | "quantile" | "returned"
  point_fc,   \* the point forecast, one value per month of the horizon
  resid,      \* the residual pool
  paths,      \* rows of `paths` filled so far
  noise,      \* the noise list of the path being built
  fan_q,      \* the returned quantile table, scaled by 20; <<>> before
  fan_pos,    \* draws taken so far from the rng of mc_fan
  noiseB,     \* noise of the re-run
  pathsB,     \* paths of the re-run
  block_len,  \* the block_len argument of the call
  \* ---- the isotonic calibrator (step 6)
  pcI,        \* "idle" | "fit" | "fitted" | "applied"
  window,     \* the fitting window: (stack_fit, actual) pairs
  iso_knots,  \* the fitted calibrator: knots (x, y), y a fraction
  in_a, in_b, \* two stacked inputs, in_a <= in_b
  out_a, out_b, \* their calibrated values (fractions)
  \* ---- the adaptive pacer and retry_call
  pcR,        \* "idle" | "ready" | "try" | "raise"
  hard_fail,  \* the script's retry_call has the 'does not exist' patch
  pacer,      \* the AdaptivePacer: pause (a fraction), successes, calls
  n_calls,    \* retry_call invocations started so far
  attempt,    \* loop variable of retry_call
  last_err,   \* last_err of retry_call; <<>> is None
  invoked,    \* invocations of func made by the current retry_call
  backoffs,   \* time.sleep(wait) calls made by the current retry_call
  succ_n,     \* pacer.on_success() calls made by the current retry_call
  outcome,    \* "none" | "returned" | "raised": how the last retry_call ended
  raised,     \* the error the last retry_call raised, <<>> if none
  event,      \* the pacer method the last step called, "none" if none
  clean_run,  \* successes since the last raised retry_call or step-down
  since_rl,   \* successes since the last rate-limit error or step-down
  \* ---- the CSV cache of the bulk pull
  pcC,        \* "idle" | "load" | "pull" | "next" | "done"
  item,       \* position in all_items of the series being pulled
  files,      \* sid -> the cache file: exists, readable, age, content
  series,     \* sid -> where s came from: "none" | "cache" | "fred" | "failed"
  \* ---- _robust_residual_pool
  pcB,        \* "idle" | "clean" | "deltas" | "synth" | "return" | "returned"
  s_in,       \* the series s
  resid_in,   \* the residual array handed in
  res_pool    \* the pool being built (pool)

fvars == <<pcF, cur, model, X_filled, y_histA, y_histB, y_tmpA, y_tmpB,
           predsA, predsB, rowA>>

lvars == <<pcL, y, col, x, lag, best, rows, lag_tbl, top_exog>>

pvars == <<pcP, tgt, results, gen, clock, rng_pos, X_full_sim, sim_pathsB,
           sim_pathsR, X_all, top_k, y_tgt, fit_env, exog_fit, X_full, k_ext, ridge, sarimax,
           base_fcst, sarimax_fcst, stack_n, stack_lin, iso, stack_fcst_cal,
           exog_models, sim_paths, q_df, forecast_table, stack_fit,
           stack_fcst, stack_fit_cal, pack>>

evars == <<pcE, s_len, s_last, sims, fc_table>>

mvars == <<pcM, point_fc, resid, paths, noise, fan_q, fan_pos, noiseB, pathsB,
           block_len>>

ivars == <<pcI, window, iso_knots, in_a, in_b, out_a, out_b>>

rvars == <<pcR, hard_fail, pacer, n_calls, attempt, last_err, invoked,
           backoffs, succ_n, outcome, raised, event, clean_run, since_rl>>

cvars == <<pcC, item, files, series>>

bvars == <<pcB, s_in, resid_in, res_pool>>

vars == <<fvars, lvars, pvars, evars, mvars, ivars, rvars, cvars, bvars>>

\* ------------------------------------------------------- series helpers
Max(a, b) == IF a >= b THEN a ELSE b
Min(a, b) == IF a <= b THEN a ELSE b

RECURSIVE SumTo(_, _)
\* sum of f[1] + ... + f[n]
SumTo(f, n) == IF n = 0 THEN 0 ELSE f[n] + SumTo(f, n - 1)

\* the function f as an explicit table, every entry evaluated once
Table(f) == f @@ <<>>

\* the Series holding the non-missing entries of f over months lo..hi
AsSeries(f, lo, hi) ==
  LET all == [i \in 1..(hi - lo + 1) |-> [d |-> lo + i - 1, v |-> f[lo + i - 1]]]
  IN  SelectSeq(all, LAMBDA e : e.v # NaN)

\* `d in s.index`
InIndex(s, d) == \E i \in 1..Len(s) : s[i].d = d
\* s.loc[d]
Loc(s, d) == s[CHOOSE i \in 1..Len(s) : s[i].d = d].v
\* s.iloc[-1]
ILocLast(s) == s[Len(s)].v
\* s.loc[d] = v : overwrite in place when d is in the index, else append
SetLoc(s, d, v) ==
  IF InIndex(s, d)
  THEN [i \in 1..Len(s) |-> IF s[i].d = d THEN [d |-> d, v |-> v] ELSE s[i]]
  ELSE Append(s, [d |-> d, v |-> v])

\* ------------------------------------------- ridge/lasso_iterative_forecast
FcstMonths == (last_date + 1)..(last_date + horizon)
XIndex == last_date..(last_date + horizon)

\* fillna(method="ffill") then fillna(method="bfill") on one column
FFill(xc) ==
  [m \in DOMAIN xc |->
     IF \E k \in DOMAIN xc : k <= m /\ xc[k] # NaN
     THEN xc[CHOOSE k \in DOMAIN xc :
              /\ k <= m /\ xc[k] # NaN
              /\ \A j \in DOMAIN xc : (j <= m /\ xc[j] # NaN) => j <= k]
     ELSE NaN]
BFill(xc) ==
  [m \in DOMAIN xc |->
     IF \E k \in DOMAIN xc : k >= m /\ xc[k] # NaN
     THEN xc[CHOOSE k \in DOMAIN xc :
              /\ k >= m /\ xc[k] # NaN
              /\ \A j \in DOMAIN xc : (j >= m /\ xc[j] # NaN) => j >= k]
     ELSE NaN]
FillBoth(xc) == BFill(Table(FFill(Table(xc))))

\* a loop that reads the month after the lag month (for L = 1 the month being
\* forecast itself)
y_lag_shifted(y_tmp, c, L) ==
  IF InIndex(y_tmp, c - L + 1) THEN Loc(y_tmp, c - L + 1) ELSE ILocLast(y_tmp)

\* row[f"y_lag{L}"] of the loop body
y_lag(y_tmp, c, L) ==
  IF InIndex(y_tmp, c - L) THEN Loc(y_tmp, c - L) ELSE ILocLast(y_tmp)

BuildRow(y_tmp, c) == [L \in 1..p |-> y_lag(y_tmp, c, L)]

\* model.predict(xrow)[0] of a fitted scaler + linear model: affine in the row
Predict(m, xv, row) ==
  m.b + m.w * xv + SumTo([L \in 1..p |-> m.a[L] * row[L]], p)

\* y_tmp.loc[cur] = yhat
WriteBack(y_tmp, c, yhat) == SetLoc(y_tmp, c, yhat)

Histories ==
  {h \in [1..last_date -> HistVals \cup {NaN}] : h[last_date] # NaN}
Models == [b : {1}, w : {0, 1}, a : [1..p -> {0, 1}]]
ExogCols == [XIndex -> {NaN, 1}]

\* history h followed by sentinel future actuals of value s at the months of D
WithSentinels(h, D, s) ==
  AsSeries([m \in 1..(last_date + horizon) |->
              IF m <= last_date THEN h[m] ELSE IF m \in D THEN s ELSE NaN],
           1, last_date + horizon)

FcstStart ==
  /\ pcF = "loop"
  /\ cur = last_date
  /\ model \in Models
  /\ \E xc \in ExogCols : X_filled = FillBoth(xc)
  /\ \E h \in Histories, D \in SUBSET FcstMonths :
       /\ y_histA = WithSentinels(h, D, SentinelA)
       /\ y_histB = WithSentinels(h, D, SentinelB)
  /\ y_tmpA = y_histA
  /\ y_tmpB = y_histB
  /\ predsA = <<>>
  /\ predsB = <<>>
  /\ rowA = [L \in 1..p |-> NaN]

\* one iteration of `for _ in range(horizon)`, in both runs
ForecastStep ==
  /\ pcF = "loop"
  /\ Len(predsA) < horizon
  /\ X_filled[cur + 1] # NaN
  /\ LET c == cur + 1
         rA == BuildRow(y_tmpA, c)
         rB == BuildRow(y_tmpB, c)
         yA == Predict(model, X_filled[c], rA)
         yB == Predict(model, X_filled[c], rB)
     IN  /\ cur' = c
         /\ rowA' = rA
         /\ predsA' = Append(predsA, [d |-> c, v |-> yA])
         /\ predsB' = Append(predsB, [d |-> c, v |-> yB])
         /\ y_tmpA' = WriteBack(y_tmpA, c, yA)
         /\ y_tmpB' = WriteBack(y_tmpB, c, yB)
  /\ UNCHANGED <<pcF, model, X_filled, y_histA, y_histB>>

\* model.predict raises on a row holding NaN (a column that is all missing)
ForecastRaise ==
  /\ pcF = "loop"
  /\ Len(predsA) < horizon
  /\ X_filled[cur + 1] = NaN
  /\ pcF' = "raised"
  /\ UNCHANGED <<cur, model, X_filled, y_histA, y_histB, y_tmpA, y_tmpB,
                 predsA, predsB, rowA>>

\* return pd.Series(preds)
ForecastReturn ==
  /\ pcF = "loop"
  /\ Len(predsA) = horizon
  /\ pcF' = "done"
  /\ UNCHANGED <<cur, model, X_filled, y_histA, y_histB, y_tmpA, y_tmpB,
                 predsA, predsB, rowA>>

\* the recursive loop is not running
FcstIdle ==
  /\ pcF = "idle" /\ cur = 0 /\ model = <<>> /\ X_filled = <<>>
  /\ y_histA = <<>> /\ y_histB = <<>> /\ y_tmpA = <<>> /\ y_tmpB = <<>>
  /\ predsA = <<>> /\ predsB = <<>> /\ rowA = <<>>

\* ------------------------------------------------------------ best_lag_table
Months == 1..n_months
\* the target after dropna(): it may start after the first month of the frame
Targets ==
  {t \in [Months -> {0, 1, NaN}] : \A m \in Months : t[m] = NaN => m = 1}
\* a candidate column: at most one missing month
Columns ==
  {c \in [Months -> {0, 1, NaN}] :
     Cardinality({m \in Months : c[m] = NaN}) <= 1}

\* index of pd.concat([y, x.shift(lg)], axis=1).dropna()
Aligned(t, c, lg) ==
  {m \in Months : t[m] # NaN /\ m - lg \in Months /\ c[m - lg] # NaN}

SumOver(D, f) == SumTo([m \in Months |-> IF m \in D THEN f[m] ELSE 0], n_months)

\* pearsonr of the aligned pairs, kept exact as r = c / sqrt(d) with
\* c = n*Sxy - Sx*Sy and d = (n*Sxx - Sx^2) * (n*Syy - Sy^2); d = 0 (a constant
\* input) is the nan scipy returns
pearsonr(t, c, lg) ==
  LET D   == Aligned(t, c, lg)
      n   == Cardinality(D)
      xs  == [m \in Months |-> IF m \in D THEN c[m - lg] ELSE 0]
      ys  == [m \in Months |-> IF m \in D THEN t[m] ELSE 0]
      Sx  == SumOver(D, xs)
      Sy  == SumOver(D, ys)
      Sxy == SumOver(D, [m \in Months |-> xs[m] * ys[m]])
      Sxx == SumOver(D, [m \in Months |-> xs[m] * xs[m]])
      Syy == SumOver(D, [m \in Months |-> ys[m] * ys[m]])
  IN  [c |-> n * Sxy - Sx * Sy,
       d |-> (n * Sxx - Sx * Sx) * (n * Syy - Sy * Sy)]

IsNaNr(r) == r.d = 0
\* abs(a) > abs(b) on floats: False when either side is nan
AbsGT(a, b) ==
  /\ ~IsNaNr(a) /\ ~IsNaNr(b)
  /\ a.c * a.c * b.d > b.c * b.c * a.d
AbsEQ(a, b) ==
  /\ ~IsNaNr(a) /\ ~IsNaNr(b)
  /\ a.c * a.c * b.d = b.c * b.c * a.d

\* a threshold test that counts the candidate's own non-missing months instead
\* of the aligned pairs
TooFew_unaligned(t, c, lg) ==
  Cardinality({m \in Months : c[m] # NaN}) < min_obs

\* `if dfj.shape[0] < min_obs: continue`
TooFew(t, c, lg) == Cardinality(Aligned(t, c, lg)) < min_obs

\* `(best is None) or (abs(r) > abs(best["pearson"]))`
Replaces(r, b) == b = <<>> \/ AbsGT(r, b[1].pearson)

\* sort_values(by="pearson", key=abs, ascending=False): nan rows last; the
\* order of rows of equal |pearson| is left to the sort
RanksBefore(a, b) ==
  \/ (~IsNaNr(a.pearson) /\ IsNaNr(b.pearson))
  \/ AbsGT(a.pearson, b.pearson)
Perms(n) ==
  {f \in [1..n -> 1..n] : \A i, j \in 1..n : f[i] = f[j] => i = j}
Sorted(t) == \A i, j \in 1..Len(t) : i < j => ~RanksBefore(t[j], t[i])
\* ascending=True instead of ascending=False
SortValues_ascending(rs) ==
  {t \in {[i \in 1..Len(rs) |-> rs[f[i]]] : f \in Perms(Len(rs))} :
     \A i, j \in 1..Len(t) : i < j => ~RanksBefore(t[i], t[j])}

SortValues(rs) ==
  {t \in {[i \in 1..Len(rs) |-> rs[f[i]]] : f \in Perms(Len(rs))} : Sorted(t)}

\* lag_tbl.head(k)
HeadRows(t, k) == SubSeq(t, 1, Min(k, Len(t)))

LagStart ==
  /\ pcL = "read"
  /\ y \in Targets
  /\ col = 1
  /\ x = [m \in Months |-> NaN]
  /\ lag = 0
  /\ best = <<>>
  /\ rows = <<>>
  /\ lag_tbl = <<>>
  /\ top_exog = <<>>

LagIdle ==
  /\ pcL = "idle" /\ y = <<>> /\ col = 0 /\ x = <<>> /\ lag = 0
  /\ best = <<>> /\ rows = <<>> /\ lag_tbl = <<>> /\ top_exog = <<>>

\* `for col in X.columns: x = X[col]; best = None`
ReadColumn ==
  /\ pcL = "read"
  /\ x' \in Columns
  /\ lag' = 0
  /\ best' = <<>>
  /\ pcL' = "scan"
  /\ UNCHANGED <<y, col, rows, lag_tbl, top_exog>>

\* one iteration of `for lag in range(0, max_lag+1)`
LagStep ==
  /\ pcL = "scan"
  /\ lag <= max_lag
  /\ best' =
       IF TooFew(y, x, lag) THEN best
       ELSE LET r == pearsonr(y, x, lag) IN
            IF Replaces(r, best)
            THEN <<[feature |-> Features[col], best_lag |-> lag, pearson |-> r,
                    n_obs |-> Cardinality(Aligned(y, x, lag))]>>
            ELSE best
  /\ lag' = lag + 1
  /\ UNCHANGED <<pcL, y, col, x, rows, lag_tbl, top_exog>>

\* `if best is not None: rows.append(best)`, then the next column
ColEnd ==
  /\ pcL = "scan"
  /\ lag = max_lag + 1
  /\ rows' = IF best # <<>> THEN Append(rows, best[1]) ELSE rows
  /\ col' = col + 1
  /\ pcL' = IF col = Len(Features) THEN "sort" ELSE "read"
  /\ UNCHANGED <<y, x, lag, best, lag_tbl, top_exog>>

\* `return pd.DataFrame(rows).sort_values(by="pearson", ...)`: a frame built
\* from no rows has no "pearson" column and sort_values raises KeyError
SortRows ==
  /\ pcL = "sort"
  /\ IF rows = <<>>
     THEN pcL' = "raised" /\ lag_tbl' = lag_tbl
     ELSE pcL' = "head" /\ lag_tbl' \in SortValues(rows)
  /\ x' = [m \in Months |-> NaN]
  /\ lag' = 0
  /\ best' = <<>>
  /\ UNCHANGED <<y, col, rows, top_exog>>

\* top_exog = lag_tbl.head(TOP_K_EXOG)
TakeTop ==
  /\ pcL = "head"
  /\ top_exog' = HeadRows(lag_tbl, TOP_K_EXOG)
  /\ pcL' = "done"
  /\ UNCHANGED <<y, col, x, lag, best, rows, lag_tbl>>

\* ------------------------------------------------- the per-target run
\* the targets of the run, in the order of the loop
NORTH_STARS == <<"TL", "LTL">>

\* months of the frame of the per-target run: long enough for a target of
\* p + min_obs usable months with one month to spare
n_hist == p + min_obs + 1
HistMonths == 1..n_hist
\* months the frame can hold once the extensions are added
AllMonths == 1..(n_hist + horizon + max_lag)
FutureMonths == (n_hist + 1)..(n_hist + horizon)

\* level of a series at month m: a mild trend
XHist(m) == m
\* X_all[feat].dropna().index[-1] and .iloc[-1]
LastObs(xc) == CHOOSE m \in HistMonths :
                 xc[m] # NaN /\ \A k \in HistMonths : xc[k] # NaN => k <= m
LastVal(xc) == xc[LastObs(xc)]

\* the frames a run is started on: the target and the candidate of the pool.
\* Complete; the target missing one interior month; the candidate ending a
\* month before the frame; the candidate too short to qualify at any lag
YFull == [m \in HistMonths |-> XHist(m)]
YGap == [m \in HistMonths |-> IF m = n_hist - 2 THEN NaN ELSE XHist(m)]
XFull == [m \in HistMonths |-> XHist(m)]
XEarly == [m \in HistMonths |-> IF m = n_hist THEN NaN ELSE XHist(m)]
XShort == [m \in HistMonths |-> IF m < n_hist - 1 THEN NaN ELSE XHist(m)]
PipeFrames == {[y |-> YFull, x |-> XFull], [y |-> YGap, x |-> XFull],
               [y |-> YFull, x |-> XEarly], [y |-> YFull, x |-> XShort]}

\* best_lag_table on the frame: the lags with at least min_obs aligned pairs
PairsAt(yf, xc, lg) ==
  {m \in HistMonths : yf[m] # NaN /\ m - lg >= 1 /\ xc[m - lg] # NaN}
QualifyingLags(yf, xc) ==
  {lg \in 0..max_lag : Cardinality(PairsAt(yf, xc, lg)) >= min_obs}

\* the features the Lag step retained for this target
Retained == <<"f1">>
\* top_exog = lag_tbl.head(TOP_K_EXOG)[["feature","best_lag"]]
TopKs ==
  {t \in [1..Len(Retained) -> [feature : {Retained[i] : i \in 1..Len(Retained)},
                               best_lag : 0..max_lag]] :
     \A i \in 1..Len(Retained) : t[i].feature = Retained[i]}
FeatSet(t) == {t[i].feature : i \in 1..Len(t)}
LagOf(t, f) == t[CHOOSE i \in 1..Len(t) : t[i].feature = f].best_lag

\* the SARIMA grid of fit_exog_model; a fit that raises has no AIC
orders == <<"(1,0,0)", "(0,1,1)", "(1,1,0)", "(1,1,1)", "(2,0,0)">>
GridOutcomes == [1..Len(orders) -> {NaN, 1, 2}]
StdVals == {0, 1}

RECURSIVE GridScan(_, _, _, _)
\* the loop over orders: keep the first model of smallest AIC; 0 is None
GridScan(grid, i, best_aic, best_model) ==
  IF i > Len(orders) THEN best_model
  ELSE IF grid[i] # NaN /\ (best_model = 0 \/ grid[i] < best_aic)
       THEN GridScan(grid, i + 1, grid[i], i)
       ELSE GridScan(grid, i + 1, best_aic, best_model)

\* fit_exog_model: (best_model, resid_std), resid_std 0.0 when no model fits
fit_exog_model(grid, sd) ==
  LET bm == GridScan(grid, 1, 0, 0) IN
  [model |-> bm, std |-> IF bm # 0 THEN sd ELSE 0]

\* model.get_forecast(steps=n).predicted_mean of a model fitted on a series
\* whose last value is last_val
PredictedMean(mdl, last_val, n) == [i \in 1..n |-> last_val + i * (mdl % 2)]

\* a carry-forward that repeats 0.0 instead of the last observation
CarryForward_zero(last_val, n) == [i \in 1..n |-> 0]

\* [last_val] * n, last_val = X_all[feat].dropna().iloc[-1]
CarryForward(last_val, n) == [i \in 1..n |-> last_val]

\* step 2 for one candidate: model forecast, or carry-forward when
\* model.get_forecast raises (model is None)
ExtendBase(fit, xc, n) ==
  IF fit.model # 0 THEN PredictedMean(fit.model, LastVal(xc), n)
                   ELSE CarryForward(LastVal(xc), n)

\* the month before f_idx: the candidate's own last observation in the model
\* branch, X_all.index[-1] (the frame's last month) in the except branch
ExtendStart(fit, xc) == IF fit.model # 0 THEN LastObs(xc) ELSE n_hist

\* X_full column after X_full.loc[base.index, feat] = base, base dated on the
\* n months after start
ColumnOf(xc, base, start, n) ==
  [m \in AllMonths |->
     IF m > start /\ m <= start + n THEN base[m - start]
     ELSE IF m <= n_hist THEN xc[m] ELSE NaN]

\* build_exog_matrix column: X_all[feat].shift(lag)
Shift(xc, lg) == [m \in AllMonths |-> IF m - lg >= 1 THEN xc[m - lg] ELSE NaN]

\* build_exog_matrix, then ffill().bfill() of every column
FilledMatrix(Xf, t) ==
  Table([i \in 1..Len(t) |->
           Table(FillBoth(Shift(Xf[t[i].feature], t[i].best_lag)))])

\* the exogenous part of the row at month c, the columns summed under the
\* learner's weight
ExogAt(Xfl, c) == SumTo([i \in DOMAIN Xfl |-> Xfl[i][c]], Len(Xfl))

\* a month step that does not advance
NextMonth_same(c) == c
\* cur + relativedelta(months=1)
NextMonth(c) == c + 1

RECURSIVE IterPreds(_, _, _, _, _)
IterPreds(y_tmp, c, k, m, Xfl) ==
  IF k = 0 THEN <<>>
  ELSE LET c1   == NextMonth(c)
           row  == BuildRow(y_tmp, c1)
           yhat == Predict(m, ExogAt(Xfl, c1), row)
       IN  <<[d |-> c1, v |-> yhat]>>
             \o IterPreds(WriteBack(y_tmp, c1, yhat), c1, k - 1, m, Xfl)

\* y.index[-1]
LastDate(yh) == yh[Len(yh)].d

\* ridge_iterative_forecast(y.index[-1], FORECAST_HORIZON, ridge, X, y, p)
ridge_iterative_forecast(m, Xf, t, yh) ==
  LET Xfl == FilledMatrix(Xf, t) IN IterPreds(yh, LastDate(yh), horizon, m, Xfl)

\* step 3: df_train = concat([y, X_exog_lagged_full], axis=1).dropna();
\* its y column
YTrain(yh, Xf, t) ==
  AsSeries([m \in HistMonths |->
              IF /\ InIndex(yh, m)
                 /\ \A i \in 1..Len(t) :
                      Shift(Xf[t[i].feature], t[i].best_lag)[m] # NaN
              THEN Loc(yh, m) ELSE NaN], 1, n_hist)

\* step 4: dfA = concat([y_train, add_ar_terms(X_train_exog, y_train, p)],
\* axis=1).dropna(). y.shift(L) moves y_train by L rows, so the first p rows
\* have a missing autoregressive term and are dropped
DesignRows(yh, Xf, t) ==
  LET yt == YTrain(yh, Xf, t) IN
  [i \in 1..Max(0, Len(yt) - p) |->
     [d  |-> yt[i + p].d,
      y  |-> yt[i + p].v,
      x  |-> [j \in 1..Len(t) |->
                Shift(Xf[t[j].feature], t[j].best_lag)[yt[i + p].d]],
      ar |-> [L \in 1..p |-> yt[i + p - L].v]]]

\* rows of dfA in the current run
TrainRows(t) == Len(DesignRows(y_tgt, X_full, t))

PipeTargets == {AsSeries(fr.y, 1, n_hist) : fr \in PipeFrames}
\* the fitted base learner: intercept, exog weight, AR weights and the
\* penalty alpha_ the cross-validation chose
PipeModels ==
  {[b |-> 1, w |-> 1, a |-> [L \in 1..p |-> a0], alpha |-> 1] : a0 \in {0, 1}}
\* sarimax.get_forecast(exog=...).predicted_mean: affine in the exogenous row
SarModels == {[c |-> 0, w |-> 1]}
SarForecast(sm, Xf, t) ==
  LET Xfl == FilledMatrix(Xf, t)
  IN  [j \in 1..horizon |-> [d |-> n_hist + j,
                             v |-> sm.c + sm.w * ExogAt(Xfl, n_hist + j)]]

\* LinearRegression().fit(X_stack, y_stack): intercept and weights, in halves
StackCoefs == {[b0 |-> 0, w1 |-> 1, w2 |-> 1], [b0 |-> 1, w1 |-> 2, w2 |-> 0]}
\* stack_lin.predict, in halves
StackPredict(sl, b, sr) == sl.b0 + sl.w1 * b + sl.w2 * sr

\* IsotonicRegression(out_of_bounds="clip") fitted on the window: knots from
\* (xlo, ylo) to (xhi, ylo + xhi - xlo); one knot when xlo = xhi
IsoFits == {[xlo |-> 10, xhi |-> 10, ylo |-> 4], [xlo |-> 4, xhi |-> 60, ylo |-> 2]}
\* iso.transform
IsoTransform(f, v) == f.ylo + (Min(Max(v, f.xlo), f.xhi) - f.xlo)

CalPath(sl, f, bf, sf) ==
  [j \in 1..horizon |-> IsoTransform(f, StackPredict(sl, bf[j].v, sf[j].v))]

\* base_fit = Series(ridge.predict(XA), index=XA.index): the learner on the
\* rows of dfA
base_fit(m, yh, Xf, t) ==
  LET dr == DesignRows(yh, Xf, t)
  IN  [i \in 1..Len(dr) |->
         [d |-> dr[i].d, v |-> Predict(m, SumTo(dr[i].x, Len(t)), dr[i].ar)]]

\* sarimax_fit = sarimax.get_prediction(...).predicted_mean over y_train
sarimax_fit(sm, yh, Xf, t) ==
  LET yt == YTrain(yh, Xf, t)
  IN  [i \in 1..Len(yt) |->
         [d |-> yt[i].d,
          v |-> sm.c + sm.w * SumTo([j \in 1..Len(t) |->
                    Shift(Xf[t[j].feature], t[j].best_lag)[yt[i].d]], Len(t))]]

\* stack_df: actual, base_fit and sarimax_fit over common_idx, the dates the
\* three indexes share
stack_df(yh, bfit, sfit) ==
  LET common == SelectSeq(bfit, LAMBDA e : InIndex(sfit, e.d) /\ InIndex(yh, e.d))
  IN  [i \in 1..Len(common) |->
         [d |-> common[i].d, actual |-> Loc(yh, common[i].d),
          base |-> common[i].v, sarimax |-> Loc(sfit, common[i].d)]]

\* a window that takes every row of the frame
tail_idx_all(sdf) == {sdf[i].d : i \in 1..Len(sdf)}
\* tail_idx = stack_df.tail(CAL_WINDOW_MONTHS).index
tail_idx(sdf) ==
  {sdf[i].d : i \in Max(1, Len(sdf) - CAL_WINDOW_MONTHS + 1)..Len(sdf)}

\* the stack_df of the current run
StackFrame ==
  stack_df(y_tgt, base_fit(ridge, y_tgt, X_full, top_k),
           sarimax_fit(sarimax, y_tgt, X_full, top_k))

\* -------------------------------------------------- the random generator
\* np.random.default_rng(seed): a generator is a fixed stream of standard
\* normal draws per seed, read at a position that every draw advances. The
\* stream of the library is not known here: it is one of Streams, and the
\* stream of another seed is the same stream read from another offset
SEED == 42
Streams == {<<1, 0 - 1, 0 - 1, 1, 1, 0 - 1, 1>>,
            <<0 - 1, 1, 1, 1, 0 - 1, 0 - 1, 1>>}
\* wall-clock readings at the start of a run and of a later re-run
Clocks == {1, 2}

\* the seed drawn from the wall clock of the run
SeedOf_clock(clock_at_start) == clock_at_start
\* the seed passed to default_rng: the literal, whatever the clock reads
SeedOf(clock_at_start) == SEED

\* the draw at position pos of the generator seeded with seed
Normal(g, seed, pos) == g[((seed + pos) % Len(g)) + 1]
\* rng.integers(0, n) read at position pos: two draws of the stream folded
\* into 0..n-1
UniformInt(g, seed, pos, n) ==
  (2 * ((Normal(g, seed, pos) + 1) \div 2)
     + ((Normal(g, seed, pos + 1) + 1) \div 2)) % n

\* the programs that draw start with a stream and two clock readings, the
\* run's and a later re-run's
RngStart ==
  /\ gen \in Streams
  /\ clock \in {c \in [{"A", "B"} -> Clocks] : c.A < c.B}
RngIdle == gen = <<>> /\ clock = <<>>

\* draws consumed by the candidates before the i-th of top_exog in one path,
\* and by one whole path: horizon + lag per candidate
DrawsBefore(t, i) == SumTo([j \in 1..Len(t) |-> horizon + t[j].best_lag], i - 1)
PathDraws(t) == DrawsBefore(t, Len(t) + 1)

PipeStart ==
  /\ pcP = "target"
  /\ tgt = 1
  /\ results = {}
  /\ rng_pos = 0
  /\ X_full_sim = <<>> /\ sim_pathsB = <<>> /\ sim_pathsR = <<>>
  /\ X_all = <<>>
  /\ top_k = <<>>
  /\ y_tgt = <<>>
  /\ fit_env = <<>>
  /\ exog_fit = <<>>
  /\ X_full = <<>>
  /\ k_ext = 0
  /\ ridge = <<>> /\ sarimax = <<>> /\ base_fcst = <<>> /\ sarimax_fcst = <<>>
  /\ stack_n = 0 /\ stack_lin = <<>> /\ iso = <<>> /\ stack_fcst_cal = <<>>
  /\ exog_models = <<>> /\ sim_paths = <<>> /\ q_df = <<>>
  /\ forecast_table = <<>>
  /\ stack_fit = <<>> /\ stack_fcst = <<>> /\ stack_fit_cal = <<>> /\ pack = <<>>

PipeIdle ==
  /\ pcP = "idle" /\ tgt = 0 /\ results = {} /\ X_all = <<>>
  /\ rng_pos = 0
  /\ X_full_sim = <<>> /\ sim_pathsB = <<>> /\ sim_pathsR = <<>>
  /\ top_k = <<>> /\ y_tgt = <<>> /\ fit_env = <<>>
  /\ exog_fit = <<>> /\ X_full = <<>> /\ k_ext = 0
  /\ ridge = <<>> /\ sarimax = <<>> /\ base_fcst = <<>> /\ sarimax_fcst = <<>>
  /\ stack_n = 0 /\ stack_lin = <<>> /\ iso = <<>> /\ stack_fcst_cal = <<>>
  /\ exog_models = <<>> /\ sim_paths = <<>> /\ q_df = <<>>
  /\ forecast_table = <<>>
  /\ stack_fit = <<>> /\ stack_fcst = <<>> /\ stack_fit_cal = <<>> /\ pack = <<>>

\* extend a function (a dict keyed by feature) by one entry
Put(f, key, val) == [kk \in (DOMAIN f) \cup {key} |-> IF kk = key THEN val ELSE f[kk]]

\* head of the loop body and step 1: the target must be a column of the
\* frame; best_lag_table raises when no candidate of the pool qualifies
\* (sort_values on a frame without a pearson column). Every name the body
\* reads later is assigned by the body before that read, so the values a
\* previous target left are dropped here
TargetHead ==
  /\ pcP = "target"
  /\ \E present \in BOOLEAN, fr \in PipeFrames :
       IF ~present \/ QualifyingLags(fr.y, fr.x) = {}
       THEN /\ pcP' = "aborted"
            /\ y_tgt' = IF present THEN AsSeries(fr.y, 1, n_hist) ELSE <<>>
            /\ X_all' = IF present THEN [f \in {Retained[i] : i \in 1..Len(Retained)} |-> fr.x]
                                   ELSE <<>>
            /\ top_k' = <<>> /\ fit_env' = <<>> /\ k_ext' = 0
       ELSE /\ y_tgt' = AsSeries(fr.y, 1, n_hist)
            /\ X_all' = [f \in {Retained[i] : i \in 1..Len(Retained)} |-> fr.x]
            /\ top_k' \in {t \in TopKs : \A i \in 1..Len(t) :
                              t[i].best_lag \in QualifyingLags(fr.y, fr.x)}
            /\ fit_env' \in [{"base", "sarimax"} -> BOOLEAN]
            /\ k_ext' = 1
            /\ pcP' = "extend"
  /\ exog_fit' = <<>> /\ X_full' = <<>>
  /\ ridge' = <<>> /\ sarimax' = <<>> /\ base_fcst' = <<>> /\ sarimax_fcst' = <<>>
  /\ stack_n' = 0 /\ stack_lin' = <<>> /\ iso' = <<>> /\ stack_fcst_cal' = <<>>
  /\ exog_models' = <<>> /\ sim_paths' = <<>> /\ q_df' = <<>>
  /\ forecast_table' = <<>>
  /\ stack_fit' = <<>> /\ stack_fcst' = <<>> /\ stack_fit_cal' = <<>> /\ pack' = <<>>
  /\ X_full_sim' = <<>> /\ sim_pathsB' = <<>> /\ sim_pathsR' = <<>>
  /\ UNCHANGED <<tgt, results, gen, clock, rng_pos>>

\* step 2, one iteration of `for _, r in top_exog.iterrows()`
ExtendExog ==
  /\ pcP = "extend"
  /\ k_ext <= Len(top_k)
  /\ \E fit \in {fit_exog_model(grid, sd) : grid \in GridOutcomes, sd \in StdVals} :
       LET feat == top_k[k_ext].feature
           n    == horizon + top_k[k_ext].best_lag
       IN  /\ exog_fit' = Put(exog_fit, feat, fit)
           /\ X_full' = Put(X_full, feat,
                            ColumnOf(X_all[feat], ExtendBase(fit, X_all[feat], n),
                                     ExtendStart(fit, X_all[feat]), n))
  /\ k_ext' = k_ext + 1
  /\ pcP' = IF k_ext = Len(top_k) THEN "fitbase" ELSE "extend"
  /\ UNCHANGED <<stack_fit, stack_fcst, stack_fit_cal, pack, gen, clock, rng_pos, X_full_sim, sim_pathsB, sim_pathsR,
                 tgt, results, X_all, top_k, y_tgt, fit_env, ridge, sarimax, base_fcst, sarimax_fcst,
                 stack_n, stack_lin, iso, stack_fcst_cal, exog_models,
                 sim_paths, q_df, forecast_table>>

\* steps 3-4: the design matrix and the Ridge/Lasso + AR fit; an exception of
\* the fit (or an empty dfA) is not caught and ends the script
FitBase ==
  /\ pcP = "fitbase"
  /\ IF TrainRows(top_k) = 0 \/ ~fit_env["base"]
     THEN /\ pcP' = "aborted"
          /\ UNCHANGED <<ridge, base_fcst>>
     ELSE /\ ridge' \in PipeModels
          /\ base_fcst' = ridge_iterative_forecast(ridge', X_full, top_k, y_tgt)
          /\ pcP' = "fitsar"
  /\ UNCHANGED <<stack_fit, stack_fcst, stack_fit_cal, pack, gen, clock, rng_pos, X_full_sim, sim_pathsB, sim_pathsR,
                 tgt, results, X_all, top_k, y_tgt, fit_env, exog_fit, X_full, k_ext, sarimax,
                 sarimax_fcst, stack_n, stack_lin, iso, stack_fcst_cal,
                 exog_models, sim_paths, q_df, forecast_table>>

\* step 4b: SARIMAX(...).fit(disp=False) and its forecast; not guarded either
FitSarimax ==
  /\ pcP = "fitsar"
  /\ IF ~fit_env["sarimax"]
     THEN /\ pcP' = "aborted"
          /\ UNCHANGED <<sarimax, sarimax_fcst>>
     ELSE /\ sarimax' \in SarModels
          /\ sarimax_fcst' = SarForecast(sarimax', X_full, top_k)
          /\ pcP' = "stack"
  /\ UNCHANGED <<stack_fit, stack_fcst, stack_fit_cal, pack, gen, clock, rng_pos, X_full_sim, sim_pathsB, sim_pathsR,
                 tgt, results, X_all, top_k, y_tgt, fit_env, exog_fit, X_full, k_ext, ridge,
                 base_fcst, stack_n, stack_lin, iso, stack_fcst_cal,
                 exog_models, sim_paths, q_df, forecast_table>>

\* step 5: stack_df over common_idx, OLS on its last CAL_WINDOW_MONTHS rows
FitStack ==
  /\ pcP = "stack"
  /\ stack_n' = TrainRows(top_k)
  /\ stack_lin' \in StackCoefs
  /\ stack_fit' = [i \in 1..Len(StackFrame) |->
                     [d |-> StackFrame[i].d,
                      v |-> StackPredict(stack_lin', StackFrame[i].base,
                                         StackFrame[i].sarimax)]]
  /\ pcP' = "iso"
  /\ UNCHANGED <<stack_fcst, stack_fit_cal, pack, gen, clock, rng_pos, X_full_sim, sim_pathsB, sim_pathsR,
                 tgt, results, X_all, top_k, y_tgt, fit_env, exog_fit, X_full, k_ext, ridge, sarimax,
                 base_fcst, sarimax_fcst, iso, stack_fcst_cal, exog_models,
                 sim_paths, q_df, forecast_table>>

\* step 6: isotonic fit on the window, applied to the window of the
\* in-sample fit and to the stacked forecast
Calibrate ==
  /\ pcP = "iso"
  /\ iso' \in IsoFits
  /\ stack_fit_cal' =
       [i \in 1..Len(stack_fit) |->
          [d |-> stack_fit[i].d,
           v |-> IF stack_fit[i].d \in tail_idx(StackFrame)
                 THEN IsoTransform(iso', stack_fit[i].v) ELSE stack_fit[i].v]]
  /\ stack_fcst' = [j \in 1..horizon |->
                      [d |-> base_fcst[j].d,
                       v |-> StackPredict(stack_lin, base_fcst[j].v,
                                          sarimax_fcst[j].v)]]
  /\ stack_fcst_cal' = CalPath(stack_lin, iso', base_fcst, sarimax_fcst)
  /\ pcP' = "exogmodels"
  /\ UNCHANGED <<stack_fit, pack, gen, clock, rng_pos, X_full_sim, sim_pathsB, sim_pathsR,
                 tgt, results, X_all, top_k, y_tgt, fit_env, exog_fit, X_full, k_ext, ridge, sarimax,
                 base_fcst, sarimax_fcst, stack_n, stack_lin, exog_models,
                 sim_paths, q_df, forecast_table>>

\* step 2 has run for every retained candidate of the current target
Extended == top_k # <<>> /\ k_ext > Len(top_k)

\* step 7 prelude: fit_exog_model is called again on the same series and
\* returns what it returned in step 2; rng = np.random.default_rng(42) is a
\* new generator, at the start of its stream
FitExogModels ==
  /\ pcP = "exogmodels"
  /\ exog_models' = [f \in FeatSet(top_k) |->
                       [model |-> exog_fit[f].model, std |-> exog_fit[f].std,
                        lag |-> LagOf(top_k, f)]]
  /\ pcP' = "mc"
  /\ rng_pos' = 0
  /\ UNCHANGED <<stack_fit, stack_fcst, stack_fit_cal, pack, gen, clock, X_full_sim, sim_pathsB, sim_pathsR,
                 tgt, results, X_all, top_k, y_tgt, fit_env, exog_fit, X_full, k_ext, ridge, sarimax,
                 base_fcst, sarimax_fcst, stack_n, stack_lin, iso,
                 stack_fcst_cal, sim_paths, q_df, forecast_table>>

\* forecast_exog_with_noise: base + noise; with no model, model.model raises
\* too and the base is 0.0 repeated. z is rng.normal(0, 1, size=n)
forecast_exog_with_noise(info, last_val, n, z) ==
  LET base == IF info.model # 0 THEN PredictedMean(info.model, last_val, n)
                                ELSE [i \in 1..n |-> 0]
  IN  [i \in 1..n |-> base[i] + info.std * z[i]]

\* X_full_sim of one path: X_all with every retained candidate overwritten,
\* on the horizon + lag months after its own last observation, by its noisy
\* forecast; the generator is read from position pos0 on
SimFrame(Xa, em, t, g, seed, pos0) ==
  [f \in FeatSet(t) |->
     LET i == CHOOSE k \in 1..Len(t) : t[k].feature = f
         n == horizon + em[f].lag
         z == [k \in 1..n |-> Normal(g, seed, pos0 + DrawsBefore(t, i) + k - 1)]
     IN  Table(ColumnOf(Xa[f],
                        forecast_exog_with_noise(em[f], LastVal(Xa[f]), n, z),
                        LastObs(Xa[f]), n))]

\* learners refitted inside the loop: a stacker that differs from the fitted
PathLearners_refit(r, sm, sl, f) ==
  [ridge |-> r, sarimax |-> sm,
   stack_lin |-> [b0 |-> sl.b0 + 1, w1 |-> sl.w1, w2 |-> sl.w2], iso |-> f]
\* the learners a path is computed with: the objects fitted in steps 4..6
PathLearners(r, sm, sl, f) ==
  [ridge |-> r, sarimax |-> sm, stack_lin |-> sl, iso |-> f]

\* the calibrated stacked path of one simulated frame
SimulatedPath(Xs, t, yh, lr) ==
  CalPath(lr.stack_lin, lr.iso,
          ridge_iterative_forecast(lr.ridge, Xs, t, yh),
          SarForecast(lr.sarimax, Xs, t))

\* one iteration of `for s in range(MC_SIMS)`. Beside the run itself two
\* reference runs of the same loop are carried: a re-run of the program on
\* the same inputs at a later wall-clock time (sim_pathsB), and the loop
\* executed in descending order of s (sim_pathsR, kept by path index)
SimPath ==
  /\ pcP = "mc"
  /\ Len(sim_paths) < MC_SIMS
  /\ LET s  == Len(sim_paths)
         lr == PathLearners(ridge, sarimax, stack_lin, iso)
         Xs == SimFrame(X_all, exog_models, top_k, gen, SeedOf(clock.A), rng_pos)
         Xb == SimFrame(X_all, exog_models, top_k, gen, SeedOf(clock.B),
                        s * PathDraws(top_k))
         path == SimulatedPath(Xs, top_k, y_tgt, lr)
     IN  /\ X_full_sim' = Xs
         /\ sim_paths' = Append(sim_paths, path)
         /\ sim_pathsB' = Append(sim_pathsB, SimulatedPath(Xb, top_k, y_tgt, lr))
         /\ sim_pathsR' = Put(sim_pathsR, MC_SIMS - 1 - s, path)
  /\ rng_pos' = rng_pos + PathDraws(top_k)
  /\ pcP' = IF Len(sim_paths) + 1 = MC_SIMS THEN "quantile" ELSE "mc"
  /\ UNCHANGED <<stack_fit, stack_fcst, stack_fit_cal, pack, tgt, results, X_all, top_k, y_tgt, fit_env, exog_fit, X_full, k_ext, ridge, sarimax,
                 base_fcst, sarimax_fcst, stack_n, stack_lin, iso,
                 stack_fcst_cal, exog_models, q_df, forecast_table, gen, clock>>

RECURSIVE Insert(_, _)
Insert(v, sq) ==
  IF sq = <<>> THEN <<v>>
  ELSE IF v <= Head(sq) THEN <<v>> \o sq
  ELSE <<Head(sq)>> \o Insert(v, Tail(sq))

RECURSIVE SortAsc(_)
SortAsc(sq) == IF sq = <<>> THEN <<>> ELSE Insert(Head(sq), SortAsc(Tail(sq)))

\* a quantile that interpolates between the samples in their drawn order
Quantile_unsorted(vals, k) ==
  LET n   == Len(vals)
      pos == k * (n - 1)
      lo  == pos \div 20
      rem == pos % 20
  IN  20 * vals[lo + 1] + rem * (vals[Min(lo + 2, n)] - vals[lo + 1])

\* DataFrame.quantile(k/20), linear interpolation between order statistics;
\* the result is scaled by 20
Quantile(vals, k) ==
  LET sv  == SortAsc(vals)
      n   == Len(sv)
      pos == k * (n - 1)
      lo  == pos \div 20
      rem == pos % 20
  IN  20 * sv[lo + 1] + rem * (sv[Min(lo + 2, n)] - sv[lo + 1])

\* sim_df.quantile([0.05,0.10,0.50,0.90,0.95], axis=1).T
BandsOf(pths) ==
  [j \in 1..horizon |->
     LET vals == Table([s \in 1..Len(pths) |-> pths[s][j]])
     IN  [p05 |-> Quantile(vals, 1), p10 |-> Quantile(vals, 2),
          p50 |-> Quantile(vals, 10), p90 |-> Quantile(vals, 18),
          p95 |-> Quantile(vals, 19)]]

Quantiles ==
  /\ pcP = "quantile"
  /\ q_df' = BandsOf(sim_paths)
  /\ pcP' = "assemble"
  /\ UNCHANGED <<stack_fit, stack_fcst, stack_fit_cal, pack, gen, clock, rng_pos, X_full_sim, sim_pathsB, sim_pathsR,
                 tgt, results, X_all, top_k, y_tgt, fit_env, exog_fit, X_full, k_ext, ridge, sarimax,
                 base_fcst, sarimax_fcst, stack_n, stack_lin, iso,
                 stack_fcst_cal, exog_models, sim_paths, forecast_table>>

\* the index of a Series
IndexOf(sq) == {sq[i].d : i \in 1..Len(sq)}
\* a row of the frame frm (one row per entry of idx) at date d, NaN when absent
RowAt(frm, idx, d, cname) ==
  IF d \in IndexOf(idx)
  THEN frm[CHOOSE j \in 1..Len(idx) : idx[j].d = d][cname] ELSE NaN

\* half-life of the weights of the stack fit
STACK_RECENCY_HL == 12
\* the keys of the pipeline_params table and their values
pipeline_params ==
  [horizon_months |-> horizon, top_k_exog |-> TOP_K_EXOG,
   max_lead_lag_months |-> max_lag, ar_p |-> p,
   cal_window_months |-> CAL_WINDOW_MONTHS, mc_sims |-> MC_SIMS,
   stack_recency_half_life |-> STACK_RECENCY_HL]

\* step 8: forecast_table = concat([hist, recent_projected, q_df], axis=1):
\* one row per date of the union of the indexes; hist is indexed by y, q_df
\* by the dates of the simulated paths (those of base_fcst); recent_projected
\* is stack_fit_cal on its dates and missing elsewhere. Then the metadata
\* tables of the target
Assemble ==
  /\ pcP = "assemble"
  /\ forecast_table' =
       [m \in IndexOf(y_tgt) \cup IndexOf(base_fcst) |->
          [actual |-> IF InIndex(y_tgt, m) THEN Loc(y_tgt, m) ELSE NaN,
           projected_fit |-> IF InIndex(y_tgt, m) /\ InIndex(stack_fit_cal, m)
                             THEN Loc(stack_fit_cal, m) ELSE NaN,
           p05 |-> RowAt(q_df, base_fcst, m, "p05"),
           p10 |-> RowAt(q_df, base_fcst, m, "p10"),
           p50 |-> RowAt(q_df, base_fcst, m, "p50"),
           p90 |-> RowAt(q_df, base_fcst, m, "p90"),
           p95 |-> RowAt(q_df, base_fcst, m, "p95")]]
  /\ pack' =
       [most_recent_summary |->
          [most_recent_month |-> LastDate(y_tgt),
           actual_most_recent |-> Loc(y_tgt, LastDate(y_tgt)),
           projected_most_recent |-> forecast_table'[LastDate(y_tgt)].projected_fit],
        stack_coeffs |->
          [intercept |-> stack_lin.b0, base_coef |-> stack_lin.w1,
           sarimax_coef |-> stack_lin.w2, base_alpha |-> ridge.alpha],
        pipeline_params |-> pipeline_params]
  /\ pcP' = "done"
  /\ UNCHANGED <<stack_fit, stack_fcst, stack_fit_cal, gen, clock, rng_pos, X_full_sim, sim_pathsB, sim_pathsR,
                 tgt, results, X_all, top_k, y_tgt, fit_env, exog_fit, X_full, k_ext, ridge, sarimax,
                 base_fcst, sarimax_fcst, stack_n, stack_lin, iso,
                 stack_fcst_cal, exog_models, sim_paths, q_df>>

\* metadata, results[TSHORT] = {...} and the per-target CSVs, then the next
\* target of the loop; the workbook is written once the loop has ended. The
\* names of the iteration are rebound by the next iteration before it reads
\* them and nothing after the loop reads them: they are cleared here. The
\* generator rng is left as the Monte Carlo loop left it
StoreResults ==
  /\ pcP = "done"
  /\ results' = results \cup {NORTH_STARS[tgt]}
  /\ IF tgt < Len(NORTH_STARS)
     THEN tgt' = tgt + 1 /\ pcP' = "target"
     ELSE tgt' = tgt /\ pcP' = "finished"
  /\ X_all' = <<>> /\ top_k' = <<>> /\ y_tgt' = <<>> /\ fit_env' = <<>>
  /\ k_ext' = 0 /\ exog_fit' = <<>> /\ X_full' = <<>>
  /\ ridge' = <<>> /\ sarimax' = <<>> /\ base_fcst' = <<>> /\ sarimax_fcst' = <<>>
  /\ stack_n' = 0 /\ stack_lin' = <<>> /\ iso' = <<>> /\ stack_fcst_cal' = <<>>
  /\ exog_models' = <<>> /\ sim_paths' = <<>> /\ q_df' = <<>>
  /\ forecast_table' = <<>>
  /\ stack_fit' = <<>> /\ stack_fcst' = <<>> /\ stack_fit_cal' = <<>> /\ pack' = <<>>
  /\ X_full_sim' = <<>> /\ sim_pathsB' = <<>> /\ sim_pathsR' = <<>>
  /\ UNCHANGED <<gen, clock, rng_pos>>

\* ----------------------------------------------------- get_ets_forecast
EtsLens == {0, 1, 2, ETS_MIN_LEN - 1, ETS_MIN_LEN}
\* paths model.simulate can return: the last value plus a drift per path
EtsPaths(last) == {[j \in 1..horizon |-> last + z * j] : z \in {0 - 1, 0, 1}}

\* the table of both carry-forward fallbacks: point and bands are last_val
CarryTable(last) ==
  [j \in 1..horizon |-> [point_forecast |-> last, p05 |-> 20 * last,
                         p50 |-> 20 * last, p95 |-> 20 * last]]
\* the table of the empty-series guard
NaNTable ==
  [j \in 1..horizon |-> [point_forecast |-> NaN, p05 |-> NaN, p50 |-> NaN,
                         p95 |-> NaN]]
\* fc_table.join(sims_df.quantile([0.05, 0.50, 0.95]).T); bands scaled by 20
QuantileTable(last, sm) ==
  [j \in 1..horizon |->
     LET vals == [r \in 1..Len(sm) |-> sm[r][j]]
     IN  [point_forecast |-> last, p05 |-> Quantile(vals, 1),
          p50 |-> Quantile(vals, 10), p95 |-> Quantile(vals, 19)]]

EtsStart ==
  /\ pcE = "block"
  /\ s_len \in EtsLens
  /\ s_last \in HistVals
  /\ sims = <<>>
  /\ fc_table = <<>>

EtsIdle ==
  /\ pcE = "idle" /\ s_len = 0 /\ s_last = 0 /\ sims = <<>> /\ fc_table = <<>>

\* `if not s_to_forecast.empty and len(s_to_forecast) > 1`
ForecastBlock ==
  /\ pcE = "block"
  /\ pcE' = IF s_len # 0 /\ s_len > 1 THEN "ets" ELSE "skipped"
  /\ UNCHANGED <<s_len, s_last, sims, fc_table>>

\* get_ets_forecast(s, horizon, mc_sims)
get_ets_forecast ==
  /\ pcE = "ets"
  /\ IF s_len = 0
     THEN fc_table' = NaNTable /\ sims' = sims
     ELSE IF s_len < ETS_MIN_LEN
     THEN fc_table' = CarryTable(s_last) /\ sims' = sims
     ELSE \E fitted \in BOOLEAN :
            IF fitted
            THEN /\ sims' \in [1..MC_SIMS -> EtsPaths(s_last)]
                 /\ fc_table' = QuantileTable(s_last, sims')
            ELSE fc_table' = CarryTable(s_last) /\ sims' = sims
  /\ pcE' = "returned"
  /\ UNCHANGED <<s_len, s_last>>

\* --------------------------------------------------------------- mc_fan
PoolVals == {0 - 1, 0, 1}
PoolLens == 1..4
ResidPools == UNION {[1..n -> PoolVals] : n \in PoolLens}
PointForecasts == {[j \in 1..horizon |-> 10 + d * j] : d \in {0, 1}}

\* np.nanstd(resid) < 1e-8: all pool values equal
Degenerate(pool) == \A i, j \in 1..Len(pool) : pool[i] = pool[j]
\* resid padded with zeros up to three entries
Padded(pool) ==
  IF Len(pool) < 3 THEN pool \o [i \in 1..(3 - Len(pool)) |-> 0] ELSE pool
\* rng.normal(0.0, 0.5, size=240), the synthetic pool of the last guard
FloorPool == <<1, 0 - 1, 0, 1>>

\* a start drawn anywhere in the pool
StartCount_anywhere(pool, bl) == Len(pool)
\* number of values rng.integers(0, .) can return for the block start
StartCount(pool, bl) == Max(1, Len(pool) - Max(1, bl) + 1)
\* resid[start:start + max(1, block_len)], start counted from 0
Block(pool, start, bl) ==
  SubSeq(pool, start + 1, Min(Len(pool), start + Max(1, bl)))

\* block lengths a call is made with: the default, and one longer than the
\* shortest pool the guards leave
BlockLens == {BOOT_BLOCK_LEN, BOOT_BLOCK_LEN + 2}

FanStart ==
  /\ pcM = "enter"
  /\ point_fc \in PointForecasts
  /\ resid \in ResidPools
  /\ paths = <<>> /\ noise = <<>> /\ fan_q = <<>>
  /\ fan_pos = 0 /\ noiseB = <<>> /\ pathsB = <<>>
  /\ block_len \in BlockLens

FanIdle ==
  /\ pcM = "idle" /\ point_fc = <<>> /\ resid = <<>>
  /\ paths = <<>> /\ noise = <<>> /\ fan_q = <<>>
  /\ fan_pos = 0 /\ noiseB = <<>> /\ pathsB = <<>>
  /\ block_len = 0

\* the two guards on the pool at the head of mc_fan; rng = default_rng(42)
\* is new at every call
PoolGuards ==
  /\ pcM = "enter"
  /\ resid' = IF Degenerate(Padded(resid)) THEN FloorPool ELSE Padded(resid)
  /\ fan_pos' = 0
  /\ pcM' = "block"
  /\ UNCHANGED <<point_fc, paths, noise, fan_q, noiseB, pathsB, block_len>>

\* one pass of `while len(noise) < H`: the block start is the next draw of
\* rng; the re-run reads the generator seeded at its own start
BlockDraw ==
  /\ pcM = "block"
  /\ Len(noise) < horizon
  /\ LET start  == UniformInt(gen, SeedOf(clock.A), fan_pos,
                              StartCount(resid, block_len))
         startB == UniformInt(gen, SeedOf(clock.B), fan_pos,
                              StartCount(resid, block_len))
     IN  /\ noise' = noise \o Block(resid, start, block_len)
         /\ noiseB' = noiseB \o Block(resid, startB, block_len)
  /\ fan_pos' = fan_pos + 1
  /\ UNCHANGED <<pcM, point_fc, resid, paths, fan_q, pathsB, block_len>>

\* paths[b, :] = point_fc.values + np.array(noise[:H])
PathFill ==
  /\ pcM = "block"
  /\ Len(noise) >= horizon
  /\ paths' = Append(paths, [j \in 1..horizon |-> point_fc[j] + noise[j]])
  /\ pathsB' = Append(pathsB, [j \in 1..horizon |-> point_fc[j] + noiseB[j]])
  /\ noise' = <<>> /\ noiseB' = <<>>
  /\ pcM' = IF Len(paths) + 1 = MC_SIMS THEN "quantile" ELSE "block"
  /\ UNCHANGED <<point_fc, resid, fan_q, fan_pos, block_len>>

\* fan.quantile([0.05, 0.10, 0.50, 0.90, 0.95], axis=1).T
FanQuantile ==
  /\ pcM = "quantile"
  /\ fan_q' = [j \in 1..horizon |->
                 LET vals == [b \in 1..Len(paths) |-> paths[b][j]]
                 IN  [p05 |-> Quantile(vals, 1), p10 |-> Quantile(vals, 2),
                      p50 |-> Quantile(vals, 10), p90 |-> Quantile(vals, 18),
                      p95 |-> Quantile(vals, 19)]]
  /\ pcM' = "returned"
  /\ UNCHANGED <<point_fc, resid, paths, noise, fan_pos, noiseB, pathsB, block_len>>

\* ------------------------------------------- the isotonic calibrator
\* IsotonicRegression(out_of_bounds="clip").fit(x, y) and .transform, on
\* integer inputs; fitted values are fractions [n, d] with d > 0
WindowX == 1..3
WindowY == 0..2
Windows == UNION {[1..n -> [x : WindowX, y : WindowY]] : n \in 1..CAL_WINDOW_MONTHS}
\* stacked values handed to transform: inside and on both sides of WindowX
IsoInputs == 0..4

LeqQ(q, r) == q.n * r.d <= r.n * q.d
EqQ(q, r) == q.n * r.d = r.n * q.d

\* the values of a set in ascending order
RECURSIVE SortSet(_)
SortSet(S) ==
  IF S = {} THEN <<>>
  ELSE LET lo == CHOOSE v \in S : \A w \in S : v <= w
       IN  <<lo>> \o SortSet(S \ {lo})

\* _make_unique: one point per distinct x, its y the mean of the y of the
\* points sharing that x, its weight their number; kept as [sum, cnt, n]
\* blocks in ascending x (n the number of distinct x the block spans)
MakeUnique(win) ==
  LET U == SortSet({win[i].x : i \in 1..Len(win)}) IN
  [k \in 1..Len(U) |->
     LET I == {i \in 1..Len(win) : win[i].x = U[k]} IN
     [sum |-> SumTo([i \in 1..Len(win) |-> IF i \in I THEN win[i].y ELSE 0],
                    Len(win)),
      cnt |-> Cardinality(I), n |-> 1]]

\* a pooling test that never finds a violation
Violates_never(b1, b2) == FALSE
\* two adjacent blocks out of order: mean(b1) > mean(b2)
Violates(b1, b2) == b1.sum * b2.cnt > b2.sum * b1.cnt

\* isotonic_regression (pool adjacent violators): merge the first pair of
\* adjacent blocks out of order until none is
RECURSIVE Pava(_)
Pava(bl) ==
  IF \E i \in 1..(Len(bl) - 1) : Violates(bl[i], bl[i + 1])
  THEN LET i == CHOOSE k \in 1..(Len(bl) - 1) :
                  /\ Violates(bl[k], bl[k + 1])
                  /\ \A j \in 1..(k - 1) : ~Violates(bl[j], bl[j + 1])
           merged == [sum |-> bl[i].sum + bl[i + 1].sum,
                      cnt |-> bl[i].cnt + bl[i + 1].cnt,
                      n   |-> bl[i].n + bl[i + 1].n]
       IN  Pava(SubSeq(bl, 1, i - 1) \o <<merged>> \o SubSeq(bl, i + 2, Len(bl)))
  ELSE bl

\* the fitted value of every distinct x: the mean of its block
RECURSIVE Expand(_)
Expand(bl) ==
  IF bl = <<>> THEN <<>>
  ELSE [k \in 1..Head(bl).n |-> [n |-> Head(bl).sum, d |-> Head(bl).cnt]]
         \o Expand(Tail(bl))

\* fit: the knots (x, fitted y) over the distinct x of the window
IsoFit(win) ==
  LET U == SortSet({win[i].x : i \in 1..Len(win)})
      fy == Expand(Pava(MakeUnique(win)))
  IN  [k \in 1..Len(U) |-> [x |-> U[k], y |-> fy[k]]]

X_min_(kn) == kn[1].x
X_max_(kn) == kn[Len(kn)].x

\* out_of_bounds="clip": np.clip(T, X_min_, X_max_)
Clip(kn, v) == Min(Max(v, X_min_(kn)), X_max_(kn))

\* transform: linear interpolation between the knots around the clipped
\* input (extrapolated from the nearest pair of knots when it is not between
\* two knots); the constant fitted value when there is one knot
IsoApply(kn, v) ==
  IF Len(kn) = 1 THEN kn[1].y
  ELSE LET t == Clip(kn, v)
           i == IF t <= X_min_(kn) THEN 1
                ELSE IF t >= X_max_(kn) THEN Len(kn) - 1
                ELSE CHOOSE k \in 1..(Len(kn) - 1) : kn[k].x <= t /\ t < kn[k + 1].x
           w == kn[i + 1].x - kn[i].x
       IN  [n |-> kn[i].y.n * kn[i + 1].y.d * w
                    + (kn[i + 1].y.n * kn[i].y.d - kn[i].y.n * kn[i + 1].y.d)
                        * (t - kn[i].x),
            d |-> kn[i].y.d * kn[i + 1].y.d * w]

IsoStart ==
  /\ pcI = "fit"
  /\ window \in Windows
  /\ iso_knots = <<>> /\ in_a = 0 /\ in_b = 0 /\ out_a = <<>> /\ out_b = <<>>

IsoIdle ==
  /\ pcI = "idle" /\ window = <<>>
  /\ iso_knots = <<>> /\ in_a = 0 /\ in_b = 0 /\ out_a = <<>> /\ out_b = <<>>

\* iso = IsotonicRegression(out_of_bounds="clip").fit(stack_fit.loc[tail_idx],
\* actual.loc[tail_idx])
FitIso ==
  /\ pcI = "fit"
  /\ iso_knots' = IsoFit(window)
  /\ pcI' = "fitted"
  /\ UNCHANGED <<window, in_a, in_b, out_a, out_b>>

\* iso.transform on two entries of an array of stacked values
TransformIso ==
  /\ pcI = "fitted"
  /\ \E a \in IsoInputs, b \in IsoInputs :
       /\ a <= b
       /\ in_a' = a /\ in_b' = b
       /\ out_a' = IsoApply(iso_knots, a)
       /\ out_b' = IsoApply(iso_knots, b)
  /\ pcI' = "applied"
  /\ UNCHANGED <<window, iso_knots>>

\* ------------------------------------- adaptive pacing and retry_call
\* pauses are fractions [n, d] of a second, kept in lowest terms
RECURSIVE Gcd(_, _)
Gcd(a, b) == IF b = 0 THEN a ELSE Gcd(b, a % b)
Reduce(q) == [n |-> q.n \div Gcd(q.n, q.d), d |-> q.d \div Gcd(q.n, q.d)]
MulQ(q, r) == Reduce([n |-> q.n * r.n, d |-> q.d * r.d])
LessQ(q, r) == q.n * r.d < r.n * q.d
MinQ(q, r) == IF LeqQ(q, r) THEN q ELSE r
MaxQ(q, r) == IF LeqQ(q, r) THEN r ELSE q

MIN_PAUSE == [n |-> 1, d |-> 2]
MAX_PAUSE == [n |-> 5, d |-> 2]
STEP_UP_MULT == [n |-> 3, d |-> 2]
STEP_DOWN_MULT == [n |-> 9, d |-> 10]

\* AdaptivePacer(): pause=MIN_PAUSE
NewPacer == [pause |-> MIN_PAUSE, successes |-> 0, calls |-> 0]
\* AdaptivePacer.sleep: the sleeps change no field but calls
sleep(pr) == [pr EXCEPT !.calls = @ + 1]
\* a streak of one success
StreakDone_single(n) == n >= 1
\* self.successes >= SUCCESS_STREAK
StreakDone(n) == n >= SUCCESS_STREAK
\* AdaptivePacer.on_success
on_success(pr) ==
  IF StreakDone(pr.successes + 1)
  THEN [pr EXCEPT !.pause = MaxQ(MIN_PAUSE, MulQ(@, STEP_DOWN_MULT)),
                  !.successes = 0]
  ELSE [pr EXCEPT !.successes = @ + 1]
\* a step up without the cap
StepUp_uncapped(q) == MulQ(q, STEP_UP_MULT)
\* min(MAX_PAUSE, self.pause * STEP_UP_MULT)
StepUp(q) == MinQ(MAX_PAUSE, MulQ(q, STEP_UP_MULT))
\* AdaptivePacer.on_rate_limit
on_rate_limit(pr) == [pr EXCEPT !.successes = 0, !.pause = StepUp(@)]

\* errors that all carry the mark of the first attempt
Errors_first(k) == [dne : BOOLEAN, rl : BOOLEAN, at : {1}]
\* the errors func can raise, by what the lowered message contains: 'does
\* not exist' (dne), one of 'too many requests', '429', 'rate limit' (rl);
\* at is the attempt that raised it
Errors(k) == [dne : BOOLEAN, rl : BOOLEAN, at : {k}]
\* a patch that never fires
HardFails_never(patched, e) == FALSE
\* if "does not exist" in msg: break (in the script that has the patch)
HardFails(patched, e) == patched /\ e.dne
\* if "too many requests" in msg or "429" in msg or "rate limit" in msg
IsRateLimit(e) == e.rl

RetryStart ==
  /\ pcR = "ready"
  /\ hard_fail \in BOOLEAN
  /\ pacer = NewPacer
  /\ n_calls = 0 /\ attempt = 0 /\ last_err = <<>> /\ invoked = 0
  /\ backoffs = 0 /\ succ_n = 0 /\ outcome = "none" /\ raised = <<>>
  /\ event = "none" /\ clean_run = 0 /\ since_rl = 0

RetryIdle ==
  /\ pcR = "idle"
  /\ hard_fail = FALSE
  /\ pacer = <<>>
  /\ n_calls = 0 /\ attempt = 0 /\ last_err = <<>> /\ invoked = 0
  /\ backoffs = 0 /\ succ_n = 0 /\ outcome = "none" /\ raised = <<>>
  /\ event = "none" /\ clean_run = 0 /\ since_rl = 0

\* polite_pause() / pacer.sleep() after a fetch
PolitePause ==
  /\ pcR = "ready"
  /\ pacer.calls < n_calls
  /\ pacer' = sleep(pacer)
  /\ event' = "sleep"
  /\ UNCHANGED <<pcR, hard_fail, n_calls, attempt, last_err, invoked, backoffs,
                 succ_n, outcome, raised, clean_run, since_rl>>

\* entry of retry_call: last_err = None, first pass of the for loop
EnterRetry ==
  /\ pcR = "ready"
  /\ n_calls < MaxCalls
  /\ n_calls' = n_calls + 1
  /\ attempt' = 1 /\ last_err' = <<>>
  /\ invoked' = 0 /\ backoffs' = 0 /\ succ_n' = 0
  /\ outcome' = "none" /\ raised' = <<>>
  /\ event' = "none"
  /\ pcR' = "try"
  /\ UNCHANGED <<hard_fail, pacer, clean_run, since_rl>>

\* one pass of `for attempt in range(1, MAX_RETRIES_PER_CALL + 1)`: the call
\* of func, and either on_success and the return or the except clause
Attempt ==
  /\ pcR = "try"
  /\ invoked' = invoked + 1
  /\ \/ /\ pacer' = on_success(pacer)
        /\ succ_n' = succ_n + 1
        /\ event' = "on_success"
        /\ outcome' = "returned"
        /\ pcR' = "ready"
        /\ clean_run' = IF LessQ(pacer'.pause, pacer.pause) THEN 0
                        ELSE clean_run + 1
        /\ since_rl' = IF LessQ(pacer'.pause, pacer.pause) THEN 0
                       ELSE since_rl + 1
        /\ UNCHANGED <<attempt, last_err, backoffs>>
     \/ \E e \in Errors(attempt) :
          /\ last_err' = e
          /\ IF HardFails(hard_fail, e)
             THEN /\ pcR' = "raise"
                  /\ event' = "none"
                  /\ UNCHANGED <<pacer, backoffs, attempt, since_rl>>
             ELSE IF IsRateLimit(e)
             THEN /\ pacer' = on_rate_limit(pacer)
                  /\ event' = "on_rate_limit"
                  /\ since_rl' = 0
                  /\ backoffs' = backoffs + 1
                  /\ IF attempt < MAX_RETRIES_PER_CALL
                     THEN attempt' = attempt + 1 /\ pcR' = "try"
                     ELSE attempt' = attempt /\ pcR' = "raise"
             ELSE /\ event' = "none"
                  /\ UNCHANGED <<pacer, since_rl>>
                  /\ IF attempt < MAX_RETRIES_PER_CALL
                     THEN /\ backoffs' = backoffs + 1
                          /\ attempt' = attempt + 1 /\ pcR' = "try"
                     ELSE /\ UNCHANGED <<backoffs, attempt>>
                          /\ pcR' = "raise"
          /\ UNCHANGED <<succ_n, outcome, clean_run>>
  /\ UNCHANGED <<hard_fail, n_calls, raised>>

\* raise last_err, after the loop
RaiseLast ==
  /\ pcR = "raise"
  /\ raised' = last_err
  /\ outcome' = "raised"
  /\ clean_run' = 0
  /\ event' = "none"
  /\ pcR' = "ready"
  /\ UNCHANGED <<hard_fail, pacer, n_calls, attempt, last_err, invoked,
                 backoffs, succ_n, since_rl>>

CacheIdle == pcC = "idle" /\ item = 0 /\ files = <<>> /\ series = <<>>
RPoolIdle == pcB = "idle" /\ s_in = <<>> /\ resid_in = <<>> /\ res_pool = <<>>

InitRetry ==
  /\ RetryStart /\ CacheIdle /\ RPoolIdle
  /\ FcstIdle /\ LagIdle /\ PipeIdle /\ RngIdle /\ EtsIdle /\ FanIdle /\ IsoIdle
NextRetry ==
  \/ (PolitePause /\ UNCHANGED <<fvars, lvars, pvars, evars, mvars, ivars, cvars, bvars>>)
  \/ (EnterRetry /\ UNCHANGED <<fvars, lvars, pvars, evars, mvars, ivars, cvars, bvars>>)
  \/ (Attempt /\ UNCHANGED <<fvars, lvars, pvars, evars, mvars, ivars, cvars, bvars>>)
  \/ (RaiseLast /\ UNCHANGED <<fvars, lvars, pvars, evars, mvars, ivars, cvars, bvars>>)
SpecRetry == InitRetry /\ [][NextRetry]_vars
\* func returns or raises, and the sleeps end: a retry_call that has started
\* keeps taking its steps
SpecRetryLive ==
  SpecRetry /\ WF_vars(Attempt /\ UNCHANGED <<fvars, lvars, pvars, evars, mvars, ivars, cvars, bvars>>)
            /\ WF_vars(RaiseLast /\ UNCHANGED <<fvars, lvars, pvars, evars, mvars, ivars, cvars, bvars>>)

\* ------------------------------------------ the CSV cache of the bulk pull
\* file ages are counted in half days
AgeHalves == 0..(2 * CACHE_TTL_DAYS + 3)
\* a cache file: absent, or present with an age, readable as a series or not
NoFile == [exists |-> FALSE, readable |-> FALSE, age |-> 0, content |-> "none"]
CacheFiles ==
  {NoFile} \cup {[exists |-> TRUE, readable |-> r, age |-> a, content |-> "cached"]
                   : r \in BOOLEAN, a \in AgeHalves}
\* age_days = (now_utc - file_time_utc).days: whole days
age_days(f) == f.age \div 2
\* _load_cache_if_fresh returns a series (not None)
LoadsFresh(f) ==
  /\ f.exists
  /\ age_days(f) <= CACHE_TTL_DAYS
  /\ f.readable
\* _save_cache: the file as to_csv leaves it
SavedFile == [exists |-> TRUE, readable |-> TRUE, age |-> 0, content |-> "pulled"]

CacheStart ==
  /\ pcC = "load"
  /\ item = 1
  /\ files \in [1..MaxItems -> CacheFiles]
  /\ series = [k \in 1..MaxItems |-> "none"]

\* the next series of all_items, or the end of the loop
Advance ==
  IF item < MaxItems THEN item' = item + 1 /\ pcC' = "load"
  ELSE item' = item /\ pcC' = "done"

\* s = _load_cache_if_fresh(sid), and the rest of the loop body when a
\* series came back
LoadCache ==
  /\ pcC = "load"
  /\ IF LoadsFresh(files[item])
     THEN /\ series' = [series EXCEPT ![item] = "cache"]
          /\ Advance
     ELSE /\ pcC' = "pull"
          /\ UNCHANGED <<item, series>>
  /\ UNCHANGED files

\* raw = retry_call(fred.get_series, ...) returns; _save_cache writes the
\* file, or fails and passes
PullSeries ==
  /\ pcC = "pull"
  /\ series' = [series EXCEPT ![item] = "fred"]
  /\ \E saved \in BOOLEAN :
       files' = IF saved THEN [files EXCEPT ![item] = SavedFile] ELSE files
  /\ Advance

\* retry_call raises: failed.append(...), the cache is not touched
PullFails ==
  /\ pcC = "pull"
  /\ series' = [series EXCEPT ![item] = "failed"]
  /\ Advance
  /\ UNCHANGED files

InitCache ==
  /\ CacheStart /\ RetryIdle /\ RPoolIdle
  /\ FcstIdle /\ LagIdle /\ PipeIdle /\ RngIdle /\ EtsIdle /\ FanIdle /\ IsoIdle
NextCache ==
  \/ (LoadCache /\ UNCHANGED <<fvars, lvars, pvars, evars, mvars, ivars, rvars, bvars>>)
  \/ (PullSeries /\ UNCHANGED <<fvars, lvars, pvars, evars, mvars, ivars, rvars, bvars>>)
  \/ (PullFails /\ UNCHANGED <<fvars, lvars, pvars, evars, mvars, ivars, rvars, bvars>>)
SpecCache == InitCache /\ [][NextCache]_vars

\* ---------------------------------------------- _robust_residual_pool
\* values are whole multiples of a unit in which the degeneracy threshold
\* 1e-6 is StdFloor; the noise floors 0.25 and 0.5 keep their order above it
StdFloor == 2
SigmaMin == 4
SigmaFloor == 8
\* size of the synthetic pool (240 against a minimum of 6)
SynthSize == 2 * POOL_MIN

\* _clean: a[~np.isnan(a)]
Clean(a) == SelectSeq(a, LAMBDA v : v # NaN)
\* s.diff(k).values
Diff(sq, k) ==
  [i \in 1..Len(sq) |->
     IF i - k >= 1 /\ sq[i] # NaN /\ sq[i - k] # NaN
     THEN sq[i] - sq[i - k] ELSE NaN]
\* .tail(k)
tail(sq, k) == SubSeq(sq, Max(1, Len(sq) - k + 1), Len(sq))
\* n * n times the variance of a (np.nanstd(a) ** 2 on an array without NaN)
VarN2(a) ==
  Len(a) * SumTo([i \in 1..Len(a) |-> a[i] * a[i]], Len(a))
    - SumTo(a, Len(a)) * SumTo(a, Len(a))
\* np.nanstd(a) < t
StdBelow(a, t) == VarN2(a) < Len(a) * Len(a) * t * t
\* a size test that never asks for more
TooSmall_never(a) == FALSE
\* pool.size < 6
TooSmall(a) == Len(a) < POOL_MIN
\* (pool.size < 6) or (np.nanstd(pool) < 1e-6)
Weak(a) == TooSmall(a) \/ StdBelow(a, StdFloor)
\* sigma = float(np.nanstd(recent_mom)) if recent_mom.size else 0.0, to the
\* unit below; then the floor
Sigma(a) ==
  LET sd == IF Len(a) = 0 THEN 0
            ELSE CHOOSE k \in 0..VarN2(a) :
                   /\ ~StdBelow(a, k)
                   /\ StdBelow(a, k + 1)
  IN  IF sd < SigmaMin THEN SigmaFloor ELSE sd
\* rng = np.random.default_rng(42); rng.normal(0.0, sigma, size=240)
SynthPool(g, sigma) ==
  [i \in 1..SynthSize |-> sigma * Normal(g, SEED, i - 1)]

ResidVals == {0, 4, NaN}
SeriesVals == {10, 16, NaN}
ResidArrays == UNION {[1..n -> ResidVals] : n \in 0..POOL_MIN}
SeriesIn == UNION {[1..n -> SeriesVals] : n \in 0..MaxSeriesLen}

RPoolStart ==
  /\ pcB = "clean"
  /\ s_in \in SeriesIn
  /\ resid_in \in ResidArrays
  /\ res_pool = <<>>

\* pool = _clean(resid)
CleanResid ==
  /\ pcB = "clean"
  /\ res_pool' = Clean(resid_in)
  /\ pcB' = "deltas"
  /\ UNCHANGED <<s_in, resid_in>>

\* the first guard: month-over-month and year-over-year deltas join the pool
AddDeltas ==
  /\ pcB = "deltas"
  /\ LET mom == Clean(Diff(s_in, 1))
         yoy == Clean(Diff(s_in, YOY_LAG))
     IN  res_pool' = IF Weak(res_pool) /\ Len(mom) + Len(yoy) # 0
                     THEN Clean(res_pool \o mom \o yoy) ELSE res_pool
  /\ pcB' = "synth"
  /\ UNCHANGED <<s_in, resid_in>>

\* the second guard: a synthetic pool from the recent month-over-month
\* spread; then return pool
Synthesize ==
  /\ pcB = "synth"
  /\ res_pool' = IF Weak(res_pool)
                  THEN SynthPool(gen, Sigma(Clean(tail(Diff(s_in, 1), RECENT_MOM))))
                  ELSE res_pool
  /\ pcB' = "returned"
  /\ UNCHANGED <<s_in, resid_in>>

InitPool ==
  /\ RPoolStart /\ RngStart /\ RetryIdle /\ CacheIdle
  /\ FcstIdle /\ LagIdle /\ PipeIdle /\ EtsIdle /\ FanIdle /\ IsoIdle
NextPool ==
  \/ (CleanResid /\ UNCHANGED <<fvars, lvars, pvars, evars, mvars, ivars, rvars, cvars>>)
  \/ (AddDeltas /\ UNCHANGED <<fvars, lvars, pvars, evars, mvars, ivars, rvars, cvars>>)
  \/ (Synthesize /\ UNCHANGED <<fvars, lvars, pvars, evars, mvars, ivars, rvars, cvars>>)
SpecPool == InitPool /\ [][NextPool]_vars

InitF == FcstStart /\ LagIdle /\ PipeIdle /\ RngIdle /\ EtsIdle /\ FanIdle /\ IsoIdle
           /\ RetryIdle /\ CacheIdle /\ RPoolIdle
NextF ==
  \/ (ForecastStep /\ UNCHANGED <<lvars, pvars, evars, mvars, ivars, rvars, cvars, bvars>>)
  \/ (ForecastRaise /\ UNCHANGED <<lvars, pvars, evars, mvars, ivars, rvars, cvars, bvars>>)
  \/ (ForecastReturn /\ UNCHANGED <<lvars, pvars, evars, mvars, ivars, rvars, cvars, bvars>>)

SpecFcst == InitF /\ [][NextF]_vars

InitL == LagStart /\ FcstIdle /\ PipeIdle /\ RngIdle /\ EtsIdle /\ FanIdle /\ IsoIdle
           /\ RetryIdle /\ CacheIdle /\ RPoolIdle
NextL ==
  \/ (ReadColumn /\ UNCHANGED <<fvars, pvars, evars, mvars, ivars, rvars, cvars, bvars>>)
  \/ (LagStep /\ UNCHANGED <<fvars, pvars, evars, mvars, ivars, rvars, cvars, bvars>>)
  \/ (ColEnd /\ UNCHANGED <<fvars, pvars, evars, mvars, ivars, rvars, cvars, bvars>>)
  \/ (SortRows /\ UNCHANGED <<fvars, pvars, evars, mvars, ivars, rvars, cvars, bvars>>)
  \/ (TakeTop /\ UNCHANGED <<fvars, pvars, evars, mvars, ivars, rvars, cvars, bvars>>)

SpecLag == InitL /\ [][NextL]_vars

InitP ==
  /\ FcstIdle /\ LagIdle /\ IsoIdle /\ RetryIdle /\ CacheIdle /\ RPoolIdle
  /\ \/ PipeStart /\ RngStart /\ EtsIdle /\ FanIdle
     \/ PipeIdle /\ RngIdle /\ EtsStart /\ FanIdle
     \/ PipeIdle /\ RngStart /\ EtsIdle /\ FanStart
NextP ==
  \/ (TargetHead /\ UNCHANGED <<fvars, lvars, evars, mvars, ivars, rvars, cvars, bvars>>)
  \/ (StoreResults /\ UNCHANGED <<fvars, lvars, evars, mvars, ivars, rvars, cvars, bvars>>)
  \/ (ExtendExog /\ UNCHANGED <<fvars, lvars, evars, mvars, ivars, rvars, cvars, bvars>>)
  \/ (FitBase /\ UNCHANGED <<fvars, lvars, evars, mvars, ivars, rvars, cvars, bvars>>)
  \/ (FitSarimax /\ UNCHANGED <<fvars, lvars, evars, mvars, ivars, rvars, cvars, bvars>>)
  \/ (FitStack /\ UNCHANGED <<fvars, lvars, evars, mvars, ivars, rvars, cvars, bvars>>)
  \/ (Calibrate /\ UNCHANGED <<fvars, lvars, evars, mvars, ivars, rvars, cvars, bvars>>)
  \/ (FitExogModels /\ UNCHANGED <<fvars, lvars, evars, mvars, ivars, rvars, cvars, bvars>>)
  \/ (SimPath /\ UNCHANGED <<fvars, lvars, evars, mvars, ivars, rvars, cvars, bvars>>)
  \/ (Quantiles /\ UNCHANGED <<fvars, lvars, evars, mvars, ivars, rvars, cvars, bvars>>)
  \/ (Assemble /\ UNCHANGED <<fvars, lvars, evars, mvars, ivars, rvars, cvars, bvars>>)
  \/ (ForecastBlock /\ UNCHANGED <<fvars, lvars, pvars, mvars, ivars, rvars, cvars, bvars>>)
  \/ (get_ets_forecast /\ UNCHANGED <<fvars, lvars, pvars, mvars, ivars, rvars, cvars, bvars>>)
  \/ (PoolGuards /\ UNCHANGED <<fvars, lvars, pvars, evars, ivars, rvars, cvars, bvars>>)
  \/ (BlockDraw /\ UNCHANGED <<fvars, lvars, pvars, evars, ivars, rvars, cvars, bvars>>)
  \/ (PathFill /\ UNCHANGED <<fvars, lvars, pvars, evars, ivars, rvars, cvars, bvars>>)
  \/ (FanQuantile /\ UNCHANGED <<fvars, lvars, pvars, evars, ivars, rvars, cvars, bvars>>)
SpecPipe == InitP /\ [][NextP]_vars

\* ------------------------------------------ the Ridge + AR base learner
\* step 4 with the fit computed: StandardScaler, then RidgeCV, then the
\* recursive forecast. Quantities are kept in integers: sums over the n rows
\* of dfA stand for means (times n), and squared deviations for variances
\* (times n * n)

\* the columns of XA in one row of dfA: the exogenous level, then y_lag1..p
RidgeRow(r) == <<SumTo(r.x, Len(r.x))>> \o r.ar
RidgeDim == 1 + p
ColSum(dr, j) == SumTo([i \in 1..Len(dr) |-> RidgeRow(dr[i])[j]], Len(dr))
YSum(dr) == SumTo([i \in 1..Len(dr) |-> dr[i].y], Len(dr))
\* n times the centred column entry, and n times the centred target
Dev(dr, i, j) == Len(dr) * RidgeRow(dr[i])[j] - ColSum(dr, j)
YDev(dr, i) == Len(dr) * dr[i].y - YSum(dr)
\* n * n times scale_ ** 2 of StandardScaler: the variance of the column,
\* and 1 for a column without variance
Scale2(dr, j) ==
  LET v == Len(dr) * SumTo([i \in 1..Len(dr) |->
                              RidgeRow(dr[i])[j] * RidgeRow(dr[i])[j]], Len(dr))
             - ColSum(dr, j) * ColSum(dr, j)
  IN  IF v = 0 THEN Len(dr) * Len(dr) ELSE v

\* np.logspace(-4, 3, 40): its first and its last value, as fractions
RidgeAlphas == {[num |-> 1, den |-> 10000], [num |-> 1000, den |-> 1]}
\* coefficients in the units of the columns (coef_ / scale_), on a grid
Coefs == {0 - 1, 0, 1}

\* the penalised least squares objective of Ridge at the coefficients g,
\* times n * n * den: squared residuals of the centred target plus
\* alpha * ||coef_||^2
RidgeObjective(dr, g, al) ==
  al.den * SumTo([i \in 1..Len(dr) |->
                    LET e == YDev(dr, i)
                               - SumTo([j \in 1..RidgeDim |-> g[j] * Dev(dr, i, j)],
                                       RidgeDim)
                    IN  e * e], Len(dr))
    + al.num * SumTo([j \in 1..RidgeDim |-> g[j] * g[j] * Scale2(dr, j)],
                     RidgeDim)

\* an intercept left at zero
Intercept_zero(dr, g) == 0
\* intercept_ of the pipeline: the mean of the target less the coefficients
\* on the column means, to the unit of the series
Intercept(dr, g) ==
  (YSum(dr) - SumTo([j \in 1..RidgeDim |-> g[j] * ColSum(dr, j)], RidgeDim))
    \div Len(dr)

\* ridge.fit(XA, yA): the minimisers of the objective
RidgeFits(dr) ==
  LET dfA  == Table(dr)
      grid == [1..RidgeDim -> Coefs]
  IN  UNION {LET obj == Table([g \in grid |-> RidgeObjective(dfA, g, al)])
             IN  {[b |-> Intercept(dfA, g), w |-> g[1],
                   a |-> [L \in 1..p |-> g[1 + L]], alpha |-> al.num]
                    : g \in {h \in grid : \A k \in grid : obj[h] <= obj[k]}}
             : al \in RidgeAlphas}

\* targets handed to the learner: a constant series at either level, a
\* trend and a series that turns
RidgeLevels == {1, 2}
RidgeTargets ==
  {[m \in HistMonths |-> c] : c \in RidgeLevels}
    \cup {YFull, [m \in HistMonths |-> (m * m) % 3]}
\* extended candidate columns: a trend, a flat column, a saw and a column
\* that starts a month late
RidgeCols ==
  {[m \in AllMonths |-> m], [m \in AllMonths |-> 1],
   [m \in AllMonths |-> IF m % 2 = 0 THEN 3 ELSE 0],
   [m \in AllMonths |-> IF m = 1 THEN NaN ELSE (m * m) % 5]}

RidgeStart ==
  /\ pcP = "ridgefit"
  /\ tgt = 1
  /\ results = {}
  /\ rng_pos = 0
  /\ X_full_sim = <<>> /\ sim_pathsB = <<>> /\ sim_pathsR = <<>>
  /\ \E yf \in RidgeTargets, xc \in RidgeCols, t \in TopKs :
       /\ y_tgt = AsSeries(yf, 1, n_hist)
       /\ X_full = [f \in FeatSet(t) |-> xc]
       /\ X_all = [f \in FeatSet(t) |-> [m \in HistMonths |-> xc[m]]]
       /\ top_k = t
  /\ fit_env = <<>>
  /\ exog_fit = <<>>
  /\ k_ext = 0
  /\ ridge = <<>> /\ sarimax = <<>> /\ base_fcst = <<>> /\ sarimax_fcst = <<>>
  /\ stack_n = 0 /\ stack_lin = <<>> /\ iso = <<>> /\ stack_fcst_cal = <<>>
  /\ exog_models = <<>> /\ sim_paths = <<>> /\ q_df = <<>>
  /\ forecast_table = <<>>
  /\ stack_fit = <<>> /\ stack_fcst = <<>> /\ stack_fit_cal = <<>> /\ pack = <<>>

\* XA = add_ar_terms(...), dfA = concat(...).dropna(), ridge.fit(XA, yA);
\* the fit raises on a frame without rows
FitRidge ==
  /\ pcP = "ridgefit"
  /\ IF TrainRows(top_k) = 0
     THEN /\ pcP' = "aborted"
          /\ UNCHANGED ridge
     ELSE /\ ridge' \in RidgeFits(DesignRows(y_tgt, X_full, top_k))
          /\ pcP' = "ridgefcst"
  /\ UNCHANGED <<stack_fit, stack_fcst, stack_fit_cal, pack, gen, clock,
                 rng_pos, X_full_sim, sim_pathsB, sim_pathsR, tgt, results,
                 X_all, top_k, y_tgt, fit_env, exog_fit, X_full, k_ext,
                 sarimax, base_fcst, sarimax_fcst, stack_n, stack_lin, iso,
                 stack_fcst_cal, exog_models, sim_paths, q_df, forecast_table>>

\* base_fcst = ridge_iterative_forecast(y.index[-1], FORECAST_HORIZON, ridge,
\* X_exog_lagged_full, y, p=AR_P)
ForecastRidge ==
  /\ pcP = "ridgefcst"
  /\ base_fcst' = ridge_iterative_forecast(ridge, X_full, top_k, y_tgt)
  /\ pcP' = "ridgedone"
  /\ UNCHANGED <<stack_fit, stack_fcst, stack_fit_cal, pack, gen, clock,
                 rng_pos, X_full_sim, sim_pathsB, sim_pathsR, tgt, results,
                 X_all, top_k, y_tgt, fit_env, exog_fit, X_full, k_ext,
                 ridge, sarimax, sarimax_fcst, stack_n, stack_lin, iso,
                 stack_fcst_cal, exog_models, sim_paths, q_df, forecast_table>>

InitR == RidgeStart /\ RngIdle /\ FcstIdle /\ LagIdle /\ EtsIdle /\ FanIdle /\ IsoIdle
           /\ RetryIdle /\ CacheIdle /\ RPoolIdle
NextR ==
  \/ (FitRidge /\ UNCHANGED <<fvars, lvars, evars, mvars, ivars, rvars, cvars, bvars>>)
  \/ (ForecastRidge /\ UNCHANGED <<fvars, lvars, evars, mvars, ivars, rvars, cvars, bvars>>)
SpecRidge == InitR /\ [][NextR]_vars

InitI == IsoStart /\ FcstIdle /\ LagIdle /\ PipeIdle /\ RngIdle /\ EtsIdle /\ FanIdle
           /\ RetryIdle /\ CacheIdle /\ RPoolIdle
NextI ==
  \/ (FitIso /\ UNCHANGED <<fvars, lvars, pvars, evars, mvars, rvars, cvars, bvars>>)
  \/ (TransformIso /\ UNCHANGED <<fvars, lvars, pvars, evars, mvars, rvars, cvars, bvars>>)
SpecIso == InitI /\ [][NextI]_vars

\* ------------------------------------------------------------ claims C1, C2
\* the value the history handed to run A holds for month d (NaN: none)
HistValue(d) == IF InIndex(y_histA, d) THEN Loc(y_histA, d) ELSE NaN
\* the history has no missing month among months 1..last_date
GapFree == \A d \in 1..last_date : InIndex(y_histA, d)

\* C1: two histories that agree up to last_date and differ only in sentinel
\* values dated after last_date give identical forecasts, for every history
\* (with or without missing months).
C1_SentinelsIgnored == predsA = predsB

C2_StepInputs ==
  LET k == Len(predsA') IN
  /\ cur' = cur + 1
  /\ k = Len(predsA) + 1
  /\ predsA'[k].d = cur'
  /\ Loc(y_tmpA', cur') = predsA'[k].v
  /\ \A L \in 1..p :
       /\ k - L >= 1 => rowA'[L] = predsA[k - L].v
       /\ (k - L < 1 /\ InIndex(y_histA, cur' - L)) =>
            rowA'[L] = Loc(y_histA, cur' - L)
       /\ (k - L < 1 /\ ~InIndex(y_histA, cur' - L)) =>
            rowA'[L] = ILocLast(y_tmpA)
ColumnScanned == pcL \in {"read", "sort"} /\ col > 1
ScannedFeature == Features[col - 1]
Qualifies(lg) == Cardinality(Aligned(y, x, lg)) >= min_obs
SameRows(s, t) ==
  /\ Len(s) = Len(t)
  /\ \A r \in {s[i] : i \in 1..Len(s)} :
       Cardinality({i \in 1..Len(s) : s[i] = r})
         = Cardinality({i \in 1..Len(t) : t[i] = r})

\* C3: every row of the lag table has 0 <= best_lag <= max_lag and at least
\* min_obs aligned samples at that lag; a candidate with no lag reaching
\* min_obs aligned samples has no row; the returned table holds exactly the
\* collected rows.
C3_RowsQualify ==
  /\ \A i \in 1..Len(rows) :
       /\ rows[i].best_lag \in 0..max_lag
       /\ rows[i].n_obs >= min_obs
  /\ ColumnScanned =>
       /\ (\E i \in 1..Len(rows) : rows[i].feature = ScannedFeature)
            <=> (\E lg \in 0..max_lag : Qualifies(lg))
       /\ \A i \in 1..Len(rows) :
            rows[i].feature = ScannedFeature =>
              /\ rows[i].n_obs = Cardinality(Aligned(y, x, rows[i].best_lag))
              /\ Qualifies(rows[i].best_lag)
  /\ pcL \in {"head", "done"} => SameRows(lag_tbl, rows)

\* one candidate kept at the largest lag, the other dropped for want of samples
C3_Witness ==
  /\ pcL = "sort"
  /\ Len(rows) = 1
  /\ rows[1].feature = Features[1]
  /\ rows[1].best_lag = max_lag
  /\ \A lg \in 0..max_lag : ~Qualifies(lg)

\* |a| exceeds |b|, an undefined correlation counting as smaller than any
\* defined one
Exceeds(a, b) ==
  /\ ~IsNaNr(a)
  /\ IsNaNr(b) \/ a.c * a.c * b.d > b.c * b.c * a.d

\* C4: the lag kept for a candidate has the largest absolute correlation
\* among the lags with at least min_obs aligned samples, and is the smallest
\* lag attaining it.
C4_LargestAbsCorr ==
  ColumnScanned =>
    \A i \in 1..Len(rows) :
      rows[i].feature = ScannedFeature =>
        \A lg \in 0..max_lag :
          Qualifies(lg) =>
            /\ ~Exceeds(pearsonr(y, x, lg), rows[i].pearson)
            /\ AbsEQ(pearsonr(y, x, lg), rows[i].pearson) =>
                 rows[i].best_lag <= lg

\* C5: the lag table is ordered by |pearson|, largest first (undefined last),
\* top_exog is its first min(TOP_K_EXOG, rows) rows, and no retained candidate
\* has a smaller |pearson| than one that was not retained.
C5_TopKByAbsCorr ==
  pcL = "done" =>
    LET k == Min(TOP_K_EXOG, Len(rows)) IN
    /\ \A i, j \in 1..Len(lag_tbl) :
         i < j => ~Exceeds(lag_tbl[j].pearson, lag_tbl[i].pearson)
    /\ Len(top_exog) = k
    /\ \A i \in 1..k : top_exog[i] = lag_tbl[i]
    /\ \A i \in 1..k : \A j \in (k + 1)..Len(lag_tbl) :
         ~Exceeds(lag_tbl[j].pearson, top_exog[i].pearson)

\* two qualifying candidates, the sort moved the second above the first and
\* only one is retained
C5_Witness ==
  /\ pcL = "done"
  /\ Len(lag_tbl) = 2
  /\ Len(top_exog) = 1
  /\ rows[1] = lag_tbl[2]
  /\ AbsGT(lag_tbl[1].pearson, lag_tbl[2].pearson)

\* --------------------------------------------------------- claims C6..C10
Ordered5(b) ==
  /\ b.p05 # NaN /\ b.p05 <= b.p10 /\ b.p10 <= b.p50
  /\ b.p50 <= b.p90 /\ b.p90 <= b.p95
Ordered3(b) == b.p05 # NaN /\ b.p05 <= b.p50 /\ b.p50 <= b.p95

\* C6: in every emitted forecast table the bands of every forecast month are
\* populated and ordered, p05 <= p10 <= p50 <= p90 <= p95 in the per-target
\* run and in mc_fan, and p05 <= p50 <= p95 in the table of get_ets_forecast,
\* whatever paths were simulated.
C6_BandsOrdered ==
  /\ forecast_table # <<>> => \A m \in FutureMonths : Ordered5(forecast_table[m])
  /\ q_df # <<>> => \A j \in 1..horizon : Ordered5(q_df[j])
  /\ fc_table # <<>> => \A j \in 1..horizon : Ordered3(fc_table[j])
  /\ fan_q # <<>> => \A j \in 1..horizon : Ordered5(fan_q[j])

\* a table whose paths were drawn in descending order and whose bands differ
C6_Witness ==
  /\ pcP = "done"
  /\ \E m \in FutureMonths :
       /\ sim_paths[1][m - n_hist] > sim_paths[2][m - n_hist]
       /\ forecast_table[m].p05 < forecast_table[m].p10
       /\ forecast_table[m].p90 < forecast_table[m].p95

\* C7 (as stated): no path is drawn with a zero noise std, and no emitted
\* table has a forecast month with p05 = p95.
C7_NoZeroWidthBands ==
  /\ sim_paths # <<>> => \A f \in FeatSet(top_k) : exog_models[f].std > 0
  /\ forecast_table # <<>> =>
       \A m \in FutureMonths : forecast_table[m].p05 < forecast_table[m].p95
  /\ fc_table # <<>> => \A j \in 1..horizon : fc_table[j].p05 < fc_table[j].p95

\* C8 (as stated): when exactly one of the two base learners fails to fit,
\* the per-target run is not aborted.
C8_SurvivingLearnerCompletes ==
  (Extended /\ TrainRows(top_k) > 0 /\ fit_env["base"] # fit_env["sarimax"])
    => pcP # "aborted"

\* C9 (as stated): once the stack step has run on an overlap of fewer than
\* max(12, W) rows, neither OLS nor the isotonic calibrator is fitted and
\* every forecast month is the 0.5/0.5 average of the two learners.
C9_AverageBelowGuard ==
  (pcP \in {"exogmodels", "mc", "quantile", "assemble", "done"}
     /\ stack_n < Max(12, CAL_WINDOW_MONTHS))
    => /\ stack_lin = [b0 |-> 0, w1 |-> 1, w2 |-> 1]
       /\ iso = <<>>
       /\ \A j \in 1..horizon :
            stack_fcst_cal[j] = base_fcst[j].v + sarimax_fcst[j].v

C11_OtherTargetsStillEmitted ==
  pcP = "aborted" =>
    \A k \in 1..Len(NORTH_STARS) : k # tgt => NORTH_STARS[k] \in results

\* C12 (as stated): the run of a target with at least p + min_obs usable
\* months (min_obs standing for the 24 of the lag search) is not aborted,
\* whatever candidates qualify and whatever fits fail.
C12_LongTargetCompletes ==
  (y_tgt # <<>> /\ Len(y_tgt) >= p + min_obs) => pcP # "aborted"

\* the months after the last observation of the target
ForecastDates == {LastDate(y_tgt) + j : j \in 1..horizon}

\* C13: the emitted forecast table has one row per historical month of the
\* target followed by horizon consecutive future months starting the month
\* after the last observation: (number of historical months) + horizon rows;
\* the history rows carry the actual value and no band, the future rows carry
\* every band and no actual value.
C13_TableRows ==
  forecast_table # <<>> =>
    /\ DOMAIN forecast_table = IndexOf(y_tgt) \cup ForecastDates
    /\ Cardinality(DOMAIN forecast_table) = Len(y_tgt) + horizon
    /\ \A d \in IndexOf(y_tgt) :
         /\ forecast_table[d].actual = Loc(y_tgt, d)
         /\ forecast_table[d].p05 = NaN /\ forecast_table[d].p95 = NaN
    /\ {d \in DOMAIN forecast_table : forecast_table[d].p50 # NaN} = ForecastDates
    /\ \A d \in ForecastDates :
         /\ forecast_table[d].actual = NaN
         /\ forecast_table[d].p05 # NaN /\ forecast_table[d].p10 # NaN
         /\ forecast_table[d].p90 # NaN /\ forecast_table[d].p95 # NaN

\* a table emitted for a target whose history misses an interior month
C13_Witness ==
  /\ pcP = "done"
  /\ forecast_table # <<>>
  /\ Len(y_tgt) < n_hist
  /\ Cardinality(DOMAIN forecast_table) = n_hist - 1 + horizon

\* ---------------------------------------------------------------- claim C14
\* C14: a re-run on the same inputs, at another wall-clock time and not
\* preceded by another target, draws the same noise as the run: the
\* simulated paths, the bands computed from them and the forecast table of the
\* per-target run are those of the re-run's paths, also for a target that
\* follows another target in the loop; likewise the block-bootstrap noise and
\* the paths of mc_fan.
C14_RerunIdentical ==
  /\ sim_pathsB = sim_paths
  /\ q_df # <<>> => q_df = BandsOf(sim_pathsB)
  /\ forecast_table # <<>> =>
       \A j \in 1..horizon :
         forecast_table[LastDate(y_tgt) + j].p50 = BandsOf(sim_pathsB)[j].p50
  /\ noiseB = noise
  /\ pathsB = paths

\* the second target of the loop, its paths drawn with a positive noise std
\* from a generator the first target had used
C14_Witness ==
  /\ pcP = "done" /\ tgt = 2
  /\ \E f \in FeatSet(top_k) : exog_models[f].std > 0
  /\ sim_paths[1] # sim_paths[2]

\* ---------------------------------------------------------- claims C15, C16
\* C15 (as stated): the noise of path s does not depend on the order the
\* paths are executed in: the loop run in descending order of s gives, for
\* every path index, the path of the loop run in ascending order.
C15_PathNoiseOrderFree ==
  pcP \in {"quantile", "assemble", "done"} =>
    \A s \in 0..(MC_SIMS - 1) : sim_pathsR[s] = sim_paths[s + 1]

\* the fitted objects of steps 4..6
Fitted == [ridge |-> ridge, sarimax |-> sarimax, stack_lin |-> stack_lin,
           iso |-> iso]

\* C16: an iteration of the Monte Carlo loop changes none of the fitted base
\* learners, stack coefficients and calibrator nor the point forecasts made
\* with them, and the path it appends is the one these fitted objects give
\* on its simulated frame; with a fitted model and zero noise std for every
\* candidate each path is the calibrated point forecast itself.
C16_LearnersUntouched ==
  /\ [][SimPath => UNCHANGED <<ridge, sarimax, stack_lin, iso, base_fcst,
                               sarimax_fcst, stack_fcst_cal>>]_vars
  /\ [](sim_paths # <<>> =>
          /\ sim_paths[Len(sim_paths)]
               = SimulatedPath(X_full_sim, top_k, y_tgt, Fitted)
          /\ (\A f \in FeatSet(top_k) :
                exog_models[f].model # 0 /\ exog_models[f].std = 0)
               => \A s \in 1..Len(sim_paths) : sim_paths[s] = stack_fcst_cal)

\* all paths simulated, with noise that moved a path off the point forecast
C16_Witness ==
  /\ pcP = "quantile"
  /\ Len(sim_paths) = MC_SIMS
  /\ \E s \in 1..MC_SIMS : sim_paths[s] # stack_fcst_cal
  /\ \E f \in FeatSet(top_k) : exog_models[f].model # 0 /\ exog_models[f].std > 0

\* ------------------------------------------------------ claims C17..C19
\* C17 (as stated): with every noise draw scaled by a zero std, the simulated
\* frame of a path equals the deterministic frame of step 2 on every month,
\* for every retained candidate (fitted or carried forward).
C17_ZeroNoiseIsDeterministic ==
  (X_full_sim # <<>> /\ \A f \in FeatSet(top_k) : exog_models[f].std = 0)
    => \A f \in FeatSet(top_k) : X_full_sim[f] = X_full[f]

\* C18 (as stated): after step 2 the extended column of every retained
\* candidate holds a value on each of the horizon + lag months following the
\* candidate's own last observation, and its column shifted by the lag holds
\* a value on every forecast month of the target before any filling.
C18_ExtendedCoversHorizon ==
  Extended =>
    \A i \in 1..Len(top_k) :
      LET f  == top_k[i].feature
          lg == top_k[i].best_lag
      IN  /\ \A m \in (LastObs(X_all[f]) + 1)..(LastObs(X_all[f]) + horizon + lg) :
               X_full[f][m] # NaN
          /\ \A m \in FutureMonths : Shift(X_full[f], lg)[m] # NaN

\* C19 (as stated): every row of the training design matrix is a month on
\* which the target is observed, the target is observed L months earlier for
\* every L in 1..p with the column y_lagL holding that observation, and
\* every retained candidate is observed at its lag with the exogenous column
\* holding that observation.
C19_RowsAllPresent ==
  Extended =>
    LET dr == DesignRows(y_tgt, X_full, top_k) IN
    \A r \in 1..Len(dr) :
      /\ InIndex(y_tgt, dr[r].d) /\ dr[r].y = Loc(y_tgt, dr[r].d)
      /\ \A L \in 1..p :
           /\ InIndex(y_tgt, dr[r].d - L)
           /\ dr[r].ar[L] = Loc(y_tgt, dr[r].d - L)
      /\ \A j \in 1..Len(top_k) :
           LET m == dr[r].d - top_k[j].best_lag IN
           /\ m \in HistMonths
           /\ X_all[top_k[j].feature][m] # NaN
           /\ dr[r].x[j] = X_all[top_k[j].feature][m]

\* ---------------------------------------------------------------- claim C20
\* C20: for a calibrator fitted on any window and any two stacked inputs
\* a <= b, cal(a) <= cal(b); the fitted knots are non-decreasing; an input
\* below the smallest stacked value of the window gets the calibrated value
\* of that smallest value and one above the largest the calibrated value of
\* the largest; every calibrated value lies between these two.
C20_MonotoneClipped ==
  /\ iso_knots # <<>> =>
       \A k \in 1..(Len(iso_knots) - 1) :
         /\ iso_knots[k].x < iso_knots[k + 1].x
         /\ LeqQ(iso_knots[k].y, iso_knots[k + 1].y)
  /\ pcI = "applied" =>
       LET lo == iso_knots[1].y
           hi == iso_knots[Len(iso_knots)].y
       IN  /\ LeqQ(out_a, out_b)
           /\ in_a <= X_min_(iso_knots) => EqQ(out_a, lo)
           /\ in_b >= X_max_(iso_knots) => EqQ(out_b, hi)
           /\ LeqQ(lo, out_a) /\ LeqQ(out_b, hi)

\* a window whose actual values fall while the stacked values rise (pooled by
\* the fit), applied to one input below and one above the window
C20_Witness ==
  /\ pcI = "applied"
  /\ Len(window) >= 2
  /\ \E i, j \in 1..Len(window) :
       window[i].x < window[j].x /\ window[i].y > window[j].y
  /\ in_a < X_min_(iso_knots) /\ in_b > X_max_(iso_knots)

\* ----------------------------------------------------------------- claim C21
\* the keys of the metadata tables emitted for the target
MetaKeys ==
  DOMAIN pack.most_recent_summary \cup DOMAIN pack.stack_coeffs
    \cup DOMAIN pack.pipeline_params
\* names under which a backtest score could be emitted
BacktestKeys == {"backtest_r2", "backtest_score", "backtest", "r2", "r_squared"}

\* C21: the metadata emitted for every completed run contains a backtest
\* score (the squared correlation between the calibrated in-sample fit and
\* the actuals over the trailing window).
C21_BacktestEmitted ==
  pcP = "done" => MetaKeys \cap BacktestKeys # {}

\* ----------------------------------------------------------------- claim C24
\* C24: the calibration changes only the window of the in-sample fit and the
\* forecast months: every in-sample value dated before the last
\* CAL_WINDOW_MONTHS rows equals the uncalibrated stack output, in
\* stack_fit_cal and in the projected_fit column of the table, and every
\* forecast month's value is the calibrator applied to its stacked forecast.
C24_OnlyWindowCalibrated ==
  /\ stack_fit_cal # <<>> =>
       /\ Len(stack_fit_cal) = Len(stack_fit)
       /\ \A i \in 1..Len(stack_fit) :
            /\ stack_fit_cal[i].d = stack_fit[i].d
            /\ i <= Len(stack_fit) - CAL_WINDOW_MONTHS =>
                 stack_fit_cal[i].v = stack_fit[i].v
            /\ i > Len(stack_fit) - CAL_WINDOW_MONTHS =>
                 stack_fit_cal[i].v = IsoTransform(iso, stack_fit[i].v)
  /\ stack_fcst # <<>> =>
       \A j \in 1..horizon :
         stack_fcst_cal[j] = IsoTransform(iso, stack_fcst[j].v)
  /\ forecast_table # <<>> =>
       \A i \in 1..Len(stack_fit) :
         i <= Len(stack_fit) - CAL_WINDOW_MONTHS =>
           forecast_table[stack_fit[i].d].projected_fit = stack_fit[i].v

\* a table whose in-sample fit has a row before the window that the
\* calibrator would have moved, and a forecast month it did move
C24_Witness ==
  /\ pcP = "done"
  /\ Len(stack_fit) > CAL_WINDOW_MONTHS
  /\ IsoTransform(iso, stack_fit[1].v) # stack_fit[1].v
  /\ \E j \in 1..horizon : stack_fcst_cal[j] # stack_fcst[j].v

\* ----------------------------------------------------------------- claim C22
\* the target of the run is a constant series without a missing month
ConstantTarget ==
  /\ Len(y_tgt) = n_hist
  /\ \A i \in 1..Len(y_tgt) : y_tgt[i].v = y_tgt[1].v

\* C22: on a target of identical values the Ridge + AR learner's recursive
\* forecast is constant over the horizon and equal to the target's value,
\* whatever the exogenous column holds.
C22_ConstantTargetConstantForecast ==
  (pcP = "ridgedone" /\ ConstantTarget) =>
    /\ Len(base_fcst) = horizon
    /\ \A j \in 1..horizon :
         base_fcst[j].d = n_hist + j /\ base_fcst[j].v = y_tgt[1].v

\* a constant target forecast next to a candidate column that varies over
\* the training rows and over the forecast months
C22_Witness ==
  /\ pcP = "ridgedone" /\ ConstantTarget
  /\ y_tgt[1].v = 2
  /\ \E f \in DOMAIN X_full :
       /\ X_full[f][n_hist] # X_full[f][n_hist - 1]
       /\ X_full[f][n_hist + 1] # X_full[f][n_hist + 2]

\* ----------------------------------------------------------------- claim C23
\* the pass of the while loop appends the bl pool elements that follow start
RunAppended(bl) ==
  \E start \in 0..(Len(resid) - bl) :
    noise' = noise \o SubSeq(resid, start + 1, start + bl)

C25_RetryTerminates ==
  /\ [](/\ invoked <= MAX_RETRIES_PER_CALL
        /\ pcR = "raise" => invoked >= 1 /\ succ_n = 0
        /\ (pcR = "ready" /\ outcome = "returned") =>
             invoked >= 1 /\ succ_n = 1
        /\ (pcR = "ready" /\ outcome = "raised") =>
             /\ invoked >= 1 /\ succ_n = 0
             /\ raised = last_err /\ raised.at = invoked)
  /\ [][/\ succ_n' > succ_n =>
             /\ invoked' = invoked + 1 /\ succ_n' = 1
             /\ pcR' = "ready" /\ outcome' = "returned"
        /\ invoked' > invoked => pcR = "try" /\ invoked' = invoked + 1]_vars
  /\ (pcR = "try") ~> (pcR = "ready" /\ outcome # "none")

\* a retry_call that used every attempt and raised a rate-limit error, after
\* an earlier retry_call
C25_Witness ==
  /\ pcR = "ready" /\ outcome = "raised" /\ n_calls >= 2
  /\ invoked = MAX_RETRIES_PER_CALL /\ raised.rl

\* ----------------------------------------------------------------- claim C26
\* the step is a failed invocation whose error says 'does not exist', in the
\* script whose retry_call has the patch
HardFailStep ==
  /\ hard_fail /\ pcR = "try"
  /\ invoked' = invoked + 1 /\ succ_n' = succ_n
  /\ last_err'.dne

\* C26: an error whose message contains 'does not exist' ends retry_call at
\* once: no further attempt and no backoff sleep follows, the pacer's pause
\* and success counter are as before it, and that error is the one raised.
C26_HardFail ==
  /\ [][HardFailStep =>
           /\ pcR' = "raise"
           /\ pacer' = pacer /\ backoffs' = backoffs /\ attempt' = attempt
           /\ (attempt = 1 => invoked' = 1)]_vars
  /\ [][(hard_fail /\ pcR = "raise" /\ last_err.dne) =>
           /\ raised' = last_err /\ outcome' = "raised"
           /\ invoked' = invoked /\ backoffs' = backoffs /\ pacer' = pacer]_vars

\* a retry_call ended by such an error at its second attempt, the message
\* naming a rate limit too, with the pause already raised
C26_Witness ==
  /\ pcR = "ready" /\ outcome = "raised" /\ hard_fail
  /\ raised.dne /\ raised.rl /\ invoked = 2 /\ backoffs = 1
  /\ LessQ(MIN_PAUSE, pacer.pause)

\* ----------------------------------------------------------------- claim C27
\* C27: MIN_PAUSE <= pause <= MAX_PAUSE and 0 <= successes < SUCCESS_STREAK
\* at every point; on_rate_limit never lowers the pause and on_success never
\* raises it.
C27_PacerBounds ==
  /\ [](/\ LeqQ(MIN_PAUSE, pacer.pause) /\ LeqQ(pacer.pause, MAX_PAUSE)
        /\ 0 <= pacer.successes /\ pacer.successes < SUCCESS_STREAK)
  /\ [][/\ event' = "on_rate_limit" => LeqQ(pacer.pause, pacer'.pause)
        /\ event' = "on_success" => LeqQ(pacer'.pause, pacer.pause)]_vars

\* a rate limit met with the pause near the cap: the step is cut at MAX_PAUSE
C27_Witness ==
  /\ event = "on_rate_limit" /\ EqQ(pacer.pause, MAX_PAUSE)
  /\ pacer.calls >= 1

\* ----------------------------------------------------------------- claim C28
\* C28 (as stated): the pause goes down only at a success that completes
\* SUCCESS_STREAK successes with no failed call among them, and the count
\* restarts from zero there.
C28_AsStated ==
  [][LessQ(pacer'.pause, pacer.pause) =>
       /\ event' = "on_success" /\ pacer'.successes = 0
       /\ clean_run + 1 >= SUCCESS_STREAK]_vars

\* C28 (amended): the pause goes down only at a success that completes
\* SUCCESS_STREAK successes with no rate-limit error among them (a call
\* failing with another error does not restart the count), and the count
\* restarts from zero there.
C28_StepDownAfterStreak ==
  [][LessQ(pacer'.pause, pacer.pause) =>
       /\ event' = "on_success" /\ pacer'.successes = 0
       /\ since_rl + 1 >= SUCCESS_STREAK]_vars

\* a step-down at a success that followed a failed attempt of the same
\* retry_call, the error not a rate limit
C28_Witness ==
  /\ event = "on_success" /\ since_rl = 0 /\ pacer.successes = 0
  /\ invoked >= 2 /\ ~last_err.rl

\* ----------------------------------------------------------------- claim C29
\* C29: a series is served from the cache only when its file exists, is
\* readable and is less than CACHE_TTL_DAYS days old; in every other case
\* the series is pulled and the cache file is rewritten with the pull.
C29_ServedOnlyWhenFresh ==
  \A k \in DOMAIN series :
    /\ series[k] = "cache" =>
         /\ files[k].exists /\ files[k].readable
         /\ files[k].age < 2 * CACHE_TTL_DAYS
    /\ series[k] \in {"fred", "failed"} =>
         series[k] = "fred" /\ files[k] = SavedFile

\* ----------------------------------------------------------------- claim C30
\* a pool without NaN, of at least POOL_MIN values and a spread of at least
\* the threshold
NonDegenerate(a) ==
  /\ \A i \in 1..Len(a) : a[i] # NaN
  /\ Len(a) >= POOL_MIN
  /\ ~StdBelow(a, StdFloor)

\* C30: for every series and every residual array the returned pool has no
\* NaN, at least the minimum number of values and a standard deviation of
\* at least the threshold; residuals that already satisfy this are returned
\* unchanged.
C30_PoolNonDegenerate ==
  pcB = "returned" =>
    /\ NonDegenerate(res_pool)
    /\ NonDegenerate(resid_in) => res_pool = resid_in

\* a short residual array with a NaN, on a series whose deltas fill the pool
\* without the synthetic draw
C30_Witness ==
  /\ pcB = "returned"
  /\ Len(resid_in) < POOL_MIN /\ \E i \in 1..Len(resid_in) : resid_in[i] = NaN
  /\ Len(res_pool) < SynthSize
  /\ res_pool # Clean(resid_in)

====
